---------------------------- MODULE Spec2Model ----------------------------
(***************************************************************************)
(* Matrix rain animation: configuration object, rain columns and drops,    *)
(* the renderer, the UI widgets and the frame loop of main().              *)
(*                                                                         *)
(* Numbers.  Python floats are modelled as scaled integers:                *)
(*   rain_speed, rain_density, fading_speed, speed_variation and a         *)
(*   column's speed are in hundredths (1.0 is 100);                        *)
(*   a drop's y is in ten-thousandths of a pixel (speed * rain_speed);     *)
(*   a drop's brightness is in ten-thousandths (1.0 is 10000), so that     *)
(*   0.01 * fading_speed is fading_speed in hundredths.                    *)
(* Characters are code points, strings are sequences of code points.       *)
(***************************************************************************)
EXTENDS Integers, Sequences, FiniteSets, TLC

VARIABLES
    config,       \* the MatrixConfig object shared by renderer and UI
    cfg_prev,     \* history: config as it was before the last construct/update call
    cfg_call,     \* history: the last call on the configuration and its arguments
    cfg_raised,   \* history: whether that call raised ValueError
    column,       \* one RainColumn, as created by reset_matrix
    now,          \* the current_time of the last RainColumn.update call
    rare,         \* how many rare events the run of that column has taken so far
    raindrop,     \* one RainDrop, as created by a column's spawn step
    columns,      \* MatrixRenderer.columns
    last_time,    \* MatrixRenderer.last_time
    fonts,        \* MatrixRenderer.fonts: the sizes that have a cached font
    clock,        \* pygame.time.get_ticks() at its last reading
    col_ids,      \* history: the identity of each RainColumn object in columns
    next_id,      \* history: the identity the next RainColumn object gets
    rend_op,      \* history: the last operation on the renderer
    discarded,    \* history: how many drops the last reset threw away
    pc,           \* main(): where the frame loop stands
    running,      \* main(): the flag of the while loop
    exit_code,    \* main(): the value returned, -1 while it runs
    pending,      \* main(): the events of this frame not yet handled
    ui,           \* the UIControls object: visible, toggle_button, elements
    phases,       \* history: the steps main() has taken in this frame
    polled,       \* history: how many events pygame.event.get() has delivered
    ui_last,      \* history: the last UIControls.handle_event call: the panel
                  \* and armed before it, its event and what it gave
    armed,        \* history: per button, whether a left press inside it is
                  \* waiting for its left release
    fall,         \* history of the falling column: the column before its last
                  \* update, the draws of that update, the age of each drop
                  \* and the last spawn
    frame         \* history: what the last MatrixRenderer.render call drew

cfgVars == <<config, cfg_prev, cfg_call, cfg_raised>>

colVars == <<column, now, rare>>

dropVars == <<raindrop>>

rendVars == <<columns, last_time, fonts, clock, col_ids, next_id, rend_op, discarded>>

mainVars ==
    <<pc, running, exit_code, pending, ui, phases, polled, ui_last, armed>>

uiVars == <<ui_last, armed>>

rainVars == <<fall, frame>>

vars == <<config, cfg_prev, cfg_call, cfg_raised, column, now, rare, raindrop,
          columns, last_time, fonts, clock, col_ids, next_id, rend_op, discarded,
          pc, running, exit_code, pending, ui, phases, polled, ui_last,
          armed, fall, frame>>

----------------------------------------------------------------------------
(* matrix_config.py : enumerations                                         *)

ColorModes == {"GREEN", "CUSTOM", "RAINBOW"}

CharacterSets == {"LATIN", "KATAKANA", "MIXED", "BINARY", "CUSTOM"}

----------------------------------------------------------------------------
(* Helpers on sequences                                                    *)

Range(s) == {s[i] : i \in DOMAIN s}

\* the code points lo, lo+1, ..., hi as a sequence
CodeRange(lo, hi) == [i \in 1..(hi - lo + 1) |-> lo + i - 1]

----------------------------------------------------------------------------
(* matrix_config.py : MatrixConfigModel (pydantic bounds and validators)   *)

WidthMin == 640
WidthMax == 7680
HeightMin == 480
HeightMax == 4320
RainSpeedMin == 10
RainSpeedMax == 500
RainDensityMin == 10
RainDensityMax == 200
CharSizeMin == 6
CharSizeMax == 40
FadingSpeedMin == 1
FadingSpeedMax == 50
SpeedVariationMin == 0
SpeedVariationMax == 200

\* Field(..., ge=, le=) of every numeric field
FieldBoundsOK(c) ==
    /\ c.width >= WidthMin /\ c.width <= WidthMax
    /\ c.height >= HeightMin /\ c.height <= HeightMax
    /\ c.rain_speed >= RainSpeedMin /\ c.rain_speed <= RainSpeedMax
    /\ c.rain_density >= RainDensityMin /\ c.rain_density <= RainDensityMax
    /\ c.char_size_min >= CharSizeMin /\ c.char_size_min <= CharSizeMax
    /\ c.char_size_max >= CharSizeMin /\ c.char_size_max <= CharSizeMax
    /\ c.fading_speed >= FadingSpeedMin /\ c.fading_speed <= FadingSpeedMax
    /\ c.speed_variation >= SpeedVariationMin /\ c.speed_variation <= SpeedVariationMax

\* the validator with the comparison v <= values["char_size_min"]
max_size_strictly_greater(c) == c.char_size_max > c.char_size_min

\* @validator("char_size_max"): raises when v < values["char_size_min"]
max_size_greater_than_min(c) == ~(c.char_size_max < c.char_size_min)

\* the validator that never raises
validate_custom_chars_never(c) == TRUE

\* @validator("custom_chars"): raises when char_set is CUSTOM and the string is empty
validate_custom_chars(c) == ~(c.char_set = "CUSTOM" /\ Len(c.custom_chars) = 0)

\* MatrixConfigModel(...) accepts the values
ModelAccepts(c) ==
    /\ FieldBoundsOK(c)
    /\ max_size_greater_than_min(c)
    /\ validate_custom_chars(c)
    /\ c.char_set \in CharacterSets
    /\ c.color_mode \in ColorModes

----------------------------------------------------------------------------
(* matrix_config.py : MatrixConfig._update_char_set                        *)

\* string.ascii_letters + string.digits
LatinChars == CodeRange(97, 122) \o CodeRange(65, 90) \o CodeRange(48, 57)

\* "!@#$%^&*()_+-=[]{}|;:,.<>?"
SpecialChars ==
    <<33, 64, 35, 36, 37, 94, 38, 42, 40, 41, 95, 43, 45, 61, 91, 93,
      123, 125, 124, 59, 58, 44, 46, 60, 62, 63>>

\* [chr(i) for i in range(0x30A0, 0x30FF + 1)]
KatakanaChars == CodeRange(12448, 12543)

\* [chr(int("0x30a0", 16) + i) for i in range(96)]
MixedKatakana == [i \in 1..96 |-> 12448 + i - 1]

CharSetFor(char_set, custom_chars) ==
    IF char_set = "LATIN" THEN LatinChars
    ELSE IF char_set = "KATAKANA" THEN KatakanaChars
    ELSE IF char_set = "BINARY" THEN <<48, 49>>
    ELSE IF char_set = "CUSTOM" /\ Len(custom_chars) > 0 THEN custom_chars
    ELSE LatinChars \o SpecialChars \o MixedKatakana

_update_char_set(c) ==
    [c EXCEPT !._cached_chars = CharSetFor(c.char_set, c.custom_chars)]

----------------------------------------------------------------------------
(* matrix_config.py : MatrixConfig dataclass                               *)

ConfigFields ==
    {"width", "height", "fullscreen", "rain_speed", "rain_density", "char_set",
     "custom_chars", "char_size_min", "char_size_max", "color_mode",
     "base_color", "fading_speed", "speed_variation", "_cached_chars"}

\* the dataclass defaults, before __post_init__
FieldDefaults ==
    [width |-> 800, height |-> 600, fullscreen |-> FALSE,
     rain_speed |-> 100, rain_density |-> 100,
     char_set |-> "MIXED", custom_chars |-> <<>>,
     char_size_min |-> 10, char_size_max |-> 20,
     color_mode |-> "GREEN", base_color |-> <<0, 255, 0>>,
     fading_speed |-> 7, speed_variation |-> 50,
     _cached_chars |-> <<>>]

\* setattr for every key of kwargs that is an attribute of the object
SetAttrs(c, kwargs) ==
    [f \in DOMAIN c |-> IF f \in DOMAIN kwargs THEN kwargs[f] ELSE c[f]]

\* MatrixConfig(): all defaults pass validation, then the palette is built
DefaultConfig == _update_char_set(FieldDefaults)

\* _validate without the re-initialisation: the rejected values stay
_validate_keeps_rejected(c) ==
    [cfg |-> c, raised |-> ~ModelAccepts(c)]

\* _validate: on a validation failure the object is re-initialised with
\* self.__init__() (all defaults) and ValueError is raised
_validate(c) ==
    IF ModelAccepts(c)
    THEN [cfg |-> c, raised |-> FALSE]
    ELSE [cfg |-> DefaultConfig, raised |-> TRUE]

\* MatrixConfig(**params): __init__ assigns the fields, __post_init__
\* validates and builds the palette; when it raises no object is returned
Construct(params) ==
    LET assigned == SetAttrs(FieldDefaults, params)
        v == _validate(assigned)
    IN IF v.raised THEN v ELSE [cfg |-> _update_char_set(v.cfg), raised |-> FALSE]

\* update without the call of _update_char_set
update_keeps_palette(c, kwargs) == _validate(SetAttrs(c, kwargs))

\* MatrixConfig.update(**kwargs)
update(c, kwargs) ==
    LET assigned == SetAttrs(c, kwargs)
        v == _validate(assigned)
    IN IF v.raised THEN v
       ELSE IF "char_set" \in DOMAIN kwargs \/ "custom_chars" \in DOMAIN kwargs
            THEN [cfg |-> _update_char_set(v.cfg), raised |-> FALSE]
            ELSE v

----------------------------------------------------------------------------
(* matrix_config.py : MatrixConfig.get_random_char                         *)

\* random.choice(seq) for a draw u of random.random(), in hundredths
Choice(seq, u) == seq[1 + (u * Len(seq)) \div 100]

get_random_char(c, u) ==
    LET chars == IF Len(c._cached_chars) = 0
                 THEN CharSetFor(c.char_set, c.custom_chars)
                 ELSE c._cached_chars
    IN Choice(chars, u)

----------------------------------------------------------------------------
(* matrix_renderer.py : RainDrop                                           *)

\* brightness 0.2, the threshold below which a drop stops dimming
DimThreshold == 2000

\* brightness 1.0 of a new drop
FullBrightness == 10000

\* y is kept in ten-thousandths of a pixel
YScale == 10000

\* the step that brightens the drop
Dim_brightens(brightness, fading_speed) ==
    IF brightness > DimThreshold THEN brightness + fading_speed ELSE brightness

\* the dimming step of RainDrop.update
Dim(brightness, fading_speed) ==
    IF brightness > DimThreshold THEN brightness - fading_speed ELSE brightness

\* the update that moves a drop by its speed alone
RainDropUpdate_ignores_rain_speed(drop, c, reroll, u) ==
    [drop EXCEPT
        !.y = drop.y + drop.speed * 100,
        !.char = IF reroll THEN get_random_char(c, u) ELSE drop.char,
        !.brightness = Dim(drop.brightness, c.fading_speed)]

\* RainDrop.update; reroll is the outcome of random.random() < 0.02 and u the
\* draw of get_random_char
RainDropUpdate(drop, c, reroll, u) ==
    [drop EXCEPT
        !.y = drop.y + drop.speed * c.rain_speed,
        !.char = IF reroll THEN get_random_char(c, u) ELSE drop.char,
        !.brightness = Dim(drop.brightness, c.fading_speed)]

\* RainDrop.is_offscreen
is_offscreen(drop, height) == drop.y > height * YScale

----------------------------------------------------------------------------
(* matrix_renderer.py : RainColumn                                         *)

\* RainColumn._hsv_to_rgb for s = v = 1.0 and a hue h in ten-thousandths
_hsv_to_rgb(h) ==
    LET i == ((6 * h) \div 10000) % 6
        f == (6 * h) % 10000
        v == 255
        p == 0
        q == (255 * (10000 - f)) \div 10000
        t == (255 * f) \div 10000
    IN CASE i = 0 -> <<v, t, p>>
         [] i = 1 -> <<q, v, p>>
         [] i = 2 -> <<p, v, t>>
         [] i = 3 -> <<p, q, v>>
         [] i = 4 -> <<t, p, v>>
         [] OTHER -> <<v, p, q>>

\* the hue with x / 100 in place of x / 50
RainbowHue_period_100(current_time, x) == (current_time + 100 * x) % 10000

\* hue = (current_time / 10000 + self.x / 50) % 1.0, in ten-thousandths
RainbowHue(current_time, x) == (current_time + 200 * x) % 10000

\* the colour a column takes when it spawns
SpawnColor(col, c, current_time) ==
    IF c.color_mode = "RAINBOW" THEN _hsv_to_rgb(RainbowHue(current_time, col.x))
    ELSE IF c.color_mode = "CUSTOM" THEN c.base_color
    ELSE col.color

\* the delay without the constant share of 0.75
SpawnDelay_short(c, u) == (25 * u) \div c.rain_density

\* int(50 / rain_density * (random.random() * 0.5 + 0.75)) for a draw u in hundredths
SpawnDelay(c, u) == (25 * (u + 150)) \div c.rain_density

\* the guard without the test of self.active
SpawnDue_ignores_active(col, kept, current_time) ==
    /\ current_time >= col.next_spawn_time
    /\ Len(kept) < col.length

\* the guard without the test of the length
SpawnDue_ignores_length(col, kept, current_time) ==
    /\ col.active
    /\ current_time >= col.next_spawn_time

\* the guard of the spawn step, on the drops left after the removal step
SpawnDue(col, kept, current_time) ==
    /\ col.active
    /\ current_time >= col.next_spawn_time
    /\ Len(kept) < col.length

\* the new drop with the colour the column had before the spawn
NewDrop_old_color(col, color, char) ==
    [x |-> col.x, y |-> 0, char |-> char, speed |-> col.speed,
     color |-> col.color, brightness |-> FullBrightness, size |-> col.size]

\* RainDrop(x=self.x, y=0, char=new_char, speed=self.speed, color=self.color,
\*          brightness=1.0, size=self.size)
NewDrop(col, color, char) ==
    [x |-> col.x, y |-> 0, char |-> char, speed |-> col.speed,
     color |-> color, brightness |-> FullBrightness, size |-> col.size]

\* The random draws of one RainColumn.update call:
\*   reroll     index of the drop whose random.random() < 0.02 fired (0: none)
\*   char_u     draw of that drop's get_random_char, in hundredths
\*   spawn_u    draw of the new drop's get_random_char, in hundredths
\*   delay_u    draw of the spawn delay, in hundredths
\*   deactivate random.random() < 0.001
\*   reactivate random.random() < 0.05
\*   react_delay random.randint(0, 1000)
\* (the same draws serve every variant of the update below)

\* the update with the random transitions applied before the spawn step
RainColumnUpdate_transitions_first(col, c, current_time, rnd) ==
    LET moved == [i \in 1..Len(col.drops) |->
                     RainDropUpdate(col.drops[i], c, rnd.reroll = i, rnd.char_u)]
        offscreen(d) == is_offscreen(d, c.height)
        onscreen(d) == ~offscreen(d)
        kept == SelectSeq(moved, onscreen)
        deactivated ==
            IF rnd.deactivate THEN [col EXCEPT !.active = FALSE] ELSE col
        changed ==
            IF ~deactivated.active /\ rnd.reactivate
            THEN [deactivated EXCEPT
                    !.active = TRUE,
                    !.next_spawn_time = current_time + rnd.react_delay]
            ELSE deactivated
        spawn == SpawnDue(changed, kept, current_time)
        color == IF spawn THEN SpawnColor(col, c, current_time) ELSE col.color
    IN IF spawn
       THEN [changed EXCEPT
               !.color = color,
               !.drops = Append(kept, NewDrop(col, color, get_random_char(c, rnd.spawn_u))),
               !.next_spawn_time = current_time + SpawnDelay(c, rnd.delay_u)]
       ELSE [changed EXCEPT !.drops = kept]

\* the update whose reactivation test never succeeds
RainColumnUpdate_stays_dormant(col, c, current_time, rnd) ==
    LET moved == [i \in 1..Len(col.drops) |->
                     RainDropUpdate(col.drops[i], c, rnd.reroll = i, rnd.char_u)]
        offscreen(d) == is_offscreen(d, c.height)
        onscreen(d) == ~offscreen(d)
        kept == SelectSeq(moved, onscreen)
        spawn == SpawnDue(col, kept, current_time)
        color == IF spawn THEN SpawnColor(col, c, current_time) ELSE col.color
        spawned ==
            IF spawn
            THEN [col EXCEPT
                    !.color = color,
                    !.drops = Append(kept, NewDrop(col, color, get_random_char(c, rnd.spawn_u))),
                    !.next_spawn_time = current_time + SpawnDelay(c, rnd.delay_u)]
            ELSE [col EXCEPT !.drops = kept]
    IN IF rnd.deactivate THEN [spawned EXCEPT !.active = FALSE] ELSE spawned

\* RainColumn.update
RainColumnUpdate(col, c, current_time, rnd) ==
    LET moved == [i \in 1..Len(col.drops) |->
                     RainDropUpdate(col.drops[i], c, rnd.reroll = i, rnd.char_u)]
        offscreen(d) == is_offscreen(d, c.height)
        onscreen(d) == ~offscreen(d)
        kept == SelectSeq(moved, onscreen)
        spawn == SpawnDue(col, kept, current_time)
        color == IF spawn THEN SpawnColor(col, c, current_time) ELSE col.color
        spawned ==
            IF spawn
            THEN [col EXCEPT
                    !.color = color,
                    !.drops = Append(kept, NewDrop(col, color, get_random_char(c, rnd.spawn_u))),
                    !.next_spawn_time = current_time + SpawnDelay(c, rnd.delay_u)]
            ELSE [col EXCEPT !.drops = kept]
        deactivated ==
            IF rnd.deactivate THEN [spawned EXCEPT !.active = FALSE] ELSE spawned
    IN IF ~deactivated.active /\ rnd.reactivate
       THEN [deactivated EXCEPT
                !.active = TRUE,
                !.next_spawn_time = current_time + rnd.react_delay]
       ELSE deactivated

----------------------------------------------------------------------------
(* matrix_renderer.py : MatrixRenderer.reset_matrix                        *)

\* the least column spacing
MinSpacing == 10

\* the spacing without the margin of 2
Spacing_no_margin(c) == IF c.char_size_max > MinSpacing THEN c.char_size_max ELSE MinSpacing

\* spacing = max(10, self.config.char_size_max + 2)
Spacing(c) == IF c.char_size_max + 2 > MinSpacing THEN c.char_size_max + 2 ELSE MinSpacing

\* num_columns = self.config.width // spacing
NumColumns(c) == c.width \div Spacing(c)

\* the longest column random.randint(5, 30) can draw
MaxLength == 30

\* The random draws for one new column:
\*   jitter   random.randint(-3, 3)
\*   speed_u  random.uniform(-v, v) as a share of v, in hundredths (-100..100)
\*   length   random.randint(5, 30)
\*   size_u   draw of random.randint(char_size_min, char_size_max), in hundredths
\*   active   random.random() > 0.2
\*   delay    random.randint(0, 2000)
\* the column created for index i (0-based) of the loop in reset_matrix
NewColumn(c, i, rr) ==
    [x |-> i * Spacing(c) + rr.jitter,
     drops |-> <<>>,
     speed |-> 100 + (c.speed_variation * rr.speed_u) \div 100,
     length |-> rr.length,
     active |-> rr.active,
     next_spawn_time |-> rr.delay,
     color |-> c.base_color,
     size |-> c.char_size_min
                + (rr.size_u * (c.char_size_max - c.char_size_min + 1)) \div 100]

\* reset_matrix: the columns replacing the old list; draws[k] are the random
\* draws of the k-th column created (loop index k - 1)
ResetMatrix(c, draws) ==
    [k \in 1..NumColumns(c) |-> NewColumn(c, k - 1, draws[k])]

----------------------------------------------------------------------------
(* matrix_renderer.py : MatrixRenderer._preload_fonts, resize, update      *)

\* range(min_size, max_size + 1, 2): the sizes given a font
PreloadedSizes(c) ==
    {sz \in c.char_size_min..c.char_size_max : (sz - c.char_size_min) % 2 = 0}

\* abs(x - size) in the key of _get_font
SizeGap(x, size) == IF x >= size THEN x - size ELSE size - x

\* MatrixRenderer._get_font: the size of the font returned for size, given
\* the sizes cached; min() returns the first of the closest sizes, and the
\* sizes were cached in ascending order
_get_font(sizes, size) ==
    IF size \in sizes THEN size
    ELSE CHOOSE s \in sizes :
            \A t \in sizes :
                \/ SizeGap(s, size) < SizeGap(t, size)
                \/ SizeGap(s, size) = SizeGap(t, size) /\ s <= t

\* the largest time_delta, in milliseconds, that update still processes
SkipThreshold == 500

\* the gap test that never skips
TooLong_never(time_delta) == FALSE

\* if time_delta > 500: return
TooLong(time_delta) == time_delta > SkipThreshold

\* MatrixRenderer.update with the clock reading current_time; draws[k] are the
\* random draws of the k-th column's update
MatrixRendererUpdate(cols, prev_time, current_time, c, draws) ==
    IF TooLong(current_time - prev_time)
    THEN [last_time |-> current_time, columns |-> cols, skipped |-> TRUE]
    ELSE [last_time |-> current_time,
          columns |-> [k \in DOMAIN cols |->
                          RainColumnUpdate(cols[k], c, current_time, draws[k])],
          skipped |-> FALSE]

----------------------------------------------------------------------------
(* ui_controls.py : the widgets.  An event is a record                     *)
(* [type, pos, button, key]; pos is <<x, y>>.  A widget's handle_event     *)
(* gives [el, el_exc, handled, call]: the widget after the call, the       *)
(* widget as it is left when its callback raises, the value returned and   *)
(* the callback invoked.  Slider values are in hundredths.                 *)

\* pygame.Rect(x, y, width, height)
Rect(x, y, w, h) == [x |-> x, y |-> y, width |-> w, height |-> h]

\* Rect.collidepoint: the right and the bottom edge are outside
collidepoint(rect, pos) ==
    /\ rect.x <= pos[1] /\ pos[1] < rect.x + rect.width
    /\ rect.y <= pos[2] /\ pos[2] < rect.y + rect.height

\* no callback was invoked
NoCallback == [kind |-> "none"]

\* lambda val: self._update_config(<field>=val)
UpdateCallback(field, val) ==
    [kind |-> "update", kwargs |-> [f \in {field} |-> val]]

\* the event was not for this widget
NotHandled(el) ==
    [el |-> el, el_exc |-> el, handled |-> FALSE, call |-> NoCallback]

\* the widget took the event and became el2
Handled(el2, call) ==
    [el |-> el2, el_exc |-> el2, handled |-> TRUE, call |-> call]

LeftDown(event) == event.type = "MOUSEBUTTONDOWN" /\ event.button = 1

LeftUp(event) == event.type = "MOUSEBUTTONUP" /\ event.button = 1

\* Button(x, y, width, height, text, callback)
Button(x, y, w, h, text, callback) ==
    [kind |-> "Button", rect |-> Rect(x, y, w, h), active |-> FALSE,
     text |-> text, callback |-> callback, hovered |-> FALSE]

\* a button that runs its callback on every release that ends a press
ButtonHandleEvent_anywhere(el, event) ==
    IF event.type = "MOUSEMOTION"
    THEN NotHandled([el EXCEPT !.hovered = collidepoint(el.rect, event.pos)])
    ELSE IF LeftDown(event) /\ collidepoint(el.rect, event.pos)
    THEN Handled([el EXCEPT !.active = TRUE], NoCallback)
    ELSE IF LeftUp(event) /\ el.active
    THEN Handled([el EXCEPT !.active = FALSE], el.callback)
    ELSE NotHandled(el)

\* Button.handle_event
ButtonHandleEvent(el, event) ==
    IF event.type = "MOUSEMOTION"
    THEN NotHandled([el EXCEPT !.hovered = collidepoint(el.rect, event.pos)])
    ELSE IF LeftDown(event) /\ collidepoint(el.rect, event.pos)
    THEN Handled([el EXCEPT !.active = TRUE], NoCallback)
    ELSE IF LeftUp(event) /\ el.active
    THEN Handled([el EXCEPT !.active = FALSE],
                 IF collidepoint(el.rect, event.pos)
                 THEN el.callback ELSE NoCallback)
    ELSE NotHandled(el)

\* int((value - min_val) / (max_val - min_val) * width)
HandlePos(value, min_val, max_val, width) ==
    ((value - min_val) * width) \div (max_val - min_val)

\* Slider(x, y, width, height, min_val, max_val, initial_val, label,
\* callback); field and as_int describe the callback
\* lambda val: self._update_config(<field>=val) or (<field>=int(val))
Slider(x, y, w, h, min_val, max_val, initial_val, label, field, as_int) ==
    [kind |-> "Slider", rect |-> Rect(x, y, w, h), active |-> FALSE,
     min_val |-> min_val, max_val |-> max_val, value |-> initial_val,
     label |-> label, field |-> field, as_int |-> as_int, dragging |-> FALSE,
     handle_pos |-> HandlePos(initial_val, min_val, max_val, w)]

\* round(n / d) as Python rounds: to the nearest integer, halves to even
Round(n, d) ==
    LET q == n \div d
        twice == 2 * (n % d)
    IN IF twice < d THEN q
       ELSE IF twice > d THEN q + 1
       ELSE IF q % 2 = 0 THEN q ELSE q + 1

\* the offset of the pointer on the track, not clamped
RelX_unclamped(el, event) ==
    event.pos[1] - el.rect.x

\* max(0, min(event.pos[0] - self.rect.x, self.rect.width))
RelX(el, event) ==
    LET off == event.pos[1] - el.rect.x
        capped == IF off < el.rect.width THEN off ELSE el.rect.width
    IN IF capped > 0 THEN capped ELSE 0

\* min_val + (max_val - min_val) * (rel_x / width), rounded to 2 decimals
SliderValue(el, rel_x) ==
    Round(el.min_val * el.rect.width + (el.max_val - el.min_val) * rel_x,
          el.rect.width)

\* Slider.handle_event
SliderHandleEvent(el, event) ==
    LET handle_rect == Rect(el.rect.x + el.handle_pos - 5, el.rect.y, 10,
                            el.rect.height)
        rel_x == RelX(el, event)
        value == SliderValue(el, rel_x)
    IN IF LeftDown(event) /\ collidepoint(handle_rect, event.pos)
       THEN Handled([el EXCEPT !.dragging = TRUE, !.active = TRUE], NoCallback)
       ELSE IF LeftUp(event) /\ el.dragging
       THEN Handled([el EXCEPT !.dragging = FALSE, !.active = FALSE], NoCallback)
       ELSE IF event.type = "MOUSEMOTION" /\ el.dragging
       THEN Handled([el EXCEPT !.handle_pos = rel_x, !.value = value],
                    UpdateCallback(el.field,
                                   IF el.as_int THEN value \div 100 ELSE value))
       ELSE NotHandled(el)

\* next((text for val, text in options if val == value), "")
DisplayText(options, value) ==
    IF \E k \in DOMAIN options : options[k][1] = value
    THEN options[CHOOSE k \in DOMAIN options :
                    /\ options[k][1] = value
                    /\ \A j \in 1..(k - 1) : options[j][1] # value][2]
    ELSE ""

\* Dropdown(x, y, width, height, options, initial_value, label, callback);
\* field names the callback lambda val: self._update_config(<field>=val)
Dropdown(x, y, w, h, options, initial_value, label, field) ==
    [kind |-> "Dropdown", rect |-> Rect(x, y, w, h), active |-> FALSE,
     options |-> options, value |-> initial_value, label |-> label,
     field |-> field, expanded |-> FALSE,
     display_text |-> DisplayText(options, initial_value)]

\* Dropdown.handle_event; the callback runs before the list is closed
DropdownHandleEvent(el, event) ==
    LET list_rect == Rect(el.rect.x, el.rect.y + el.rect.height, el.rect.width,
                          Len(el.options) * el.rect.height)
        option_index == (event.pos[2] - list_rect.y) \div el.rect.height
        chosen == [el EXCEPT !.value = el.options[option_index + 1][1],
                             !.display_text = el.options[option_index + 1][2]]
    IN IF ~LeftDown(event) THEN NotHandled(el)
       ELSE IF collidepoint(el.rect, event.pos)
       THEN Handled([el EXCEPT !.expanded = ~el.expanded], NoCallback)
       ELSE IF /\ el.expanded
               /\ collidepoint(list_rect, event.pos)
               /\ 0 <= option_index /\ option_index < Len(el.options)
       THEN [el |-> [chosen EXCEPT !.expanded = FALSE],
             el_exc |-> chosen,
             handled |-> TRUE,
             call |-> UpdateCallback(el.field, chosen.value)]
       ELSE IF el.expanded
       THEN Handled([el EXCEPT !.expanded = FALSE], NoCallback)
       ELSE NotHandled(el)

\* ColorPicker.swatches
Swatches ==
    << <<0, 255, 0>>, <<0, 255, 255>>, <<255, 0, 0>>,
       <<255, 0, 255>>, <<255, 255, 0>>, <<255, 255, 255>>,
       <<0, 0, 255>>, <<128, 0, 255>>, <<255, 128, 0>> >>

\* ColorPicker(x, y, width, height, initial_color, label, callback)
ColorPicker(x, y, w, h, initial_color, label) ==
    [kind |-> "ColorPicker", rect |-> Rect(x, y, w, h), active |-> FALSE,
     color |-> initial_color, label |-> label, expanded |-> FALSE,
     swatches |-> Swatches]

\* the rectangle of swatch i (from 0): 3 per row, 30 wide, 5 apart
SwatchRect(el, i) ==
    Rect(el.rect.x + (i % 3) * (30 + 5),
         el.rect.y + el.rect.height + 5 + (i \div 3) * (30 + 5),
         30, 30)

\* a colour picker whose palette stays open after a selection
ColorPickerHandleEvent_stays_open(el, event) ==
    LET hit == {i \in 0..(Len(el.swatches) - 1) :
                   collidepoint(SwatchRect(el, i), event.pos)}
        first == CHOOSE i \in hit : \A j \in hit : i <= j
    IN IF ~LeftDown(event) THEN NotHandled(el)
       ELSE IF collidepoint(el.rect, event.pos)
       THEN Handled([el EXCEPT !.expanded = ~el.expanded], NoCallback)
       ELSE IF el.expanded /\ hit # {}
       THEN Handled([el EXCEPT !.color = el.swatches[first + 1]],
                    UpdateCallback("base_color", el.swatches[first + 1]))
       ELSE IF el.expanded
       THEN Handled([el EXCEPT !.expanded = FALSE], NoCallback)
       ELSE NotHandled(el)

\* ColorPicker.handle_event
ColorPickerHandleEvent(el, event) ==
    LET hit == {i \in 0..(Len(el.swatches) - 1) :
                   collidepoint(SwatchRect(el, i), event.pos)}
        first == CHOOSE i \in hit : \A j \in hit : i <= j
    IN IF ~LeftDown(event) THEN NotHandled(el)
       ELSE IF collidepoint(el.rect, event.pos)
       THEN Handled([el EXCEPT !.expanded = ~el.expanded], NoCallback)
       ELSE IF el.expanded /\ hit # {}
       THEN [el |-> [el EXCEPT !.color = el.swatches[first + 1],
                               !.expanded = FALSE],
             el_exc |-> [el EXCEPT !.color = el.swatches[first + 1]],
             handled |-> TRUE,
             call |-> UpdateCallback("base_color", el.swatches[first + 1])]
       ELSE IF el.expanded
       THEN Handled([el EXCEPT !.expanded = FALSE], NoCallback)
       ELSE NotHandled(el)

\* element.handle_event(event), by the class of the element
ElementHandleEvent(el, event) ==
    CASE el.kind = "Button" -> ButtonHandleEvent(el, event)
      [] el.kind = "Slider" -> SliderHandleEvent(el, event)
      [] el.kind = "Dropdown" -> DropdownHandleEvent(el, event)
      [] el.kind = "ColorPicker" -> ColorPickerHandleEvent(el, event)

----------------------------------------------------------------------------
(* ui_controls.py : UIControls                                             *)

\* the options of the two dropdowns
ColorModeOptions ==
    << <<"GREEN", "Green">>, <<"CUSTOM", "Custom">>, <<"RAINBOW", "Rainbow">> >>

CharacterSetOptions ==
    << <<"MIXED", "Mixed">>, <<"LATIN", "Latin">>, <<"KATAKANA", "Katakana">>,
       <<"BINARY", "Binary">>, <<"CUSTOM", "Custom">> >>

\* _init_ui: the toggle button and the elements of the panel, in the order
\* in which they are appended
_init_ui(c, screen_width, screen_height) ==
    LET panel_width == 300
        panel_x == screen_width - panel_width
        element_height == 30
    IN [toggle_button |->
            Button(screen_width - 50, 10, 40, 30, "UI", [kind |-> "toggle"]),
        elements |-> <<
            Slider(panel_x + 20, 50, panel_width - 40, element_height,
                   10, 500, c.rain_speed, "Rain Speed", "rain_speed", FALSE),
            Slider(panel_x + 20, 90, panel_width - 40, element_height,
                   10, 200, c.rain_density, "Rain Density", "rain_density",
                   FALSE),
            Slider(panel_x + 20, 130, panel_width - 40, element_height,
                   600, 4000, 100 * c.char_size_min, "Min Char Size",
                   "char_size_min", TRUE),
            Slider(panel_x + 20, 170, panel_width - 40, element_height,
                   600, 4000, 100 * c.char_size_max, "Max Char Size",
                   "char_size_max", TRUE),
            Slider(panel_x + 20, 210, panel_width - 40, element_height,
                   1, 50, c.fading_speed, "Fade Speed", "fading_speed", FALSE),
            Slider(panel_x + 20, 250, panel_width - 40, element_height,
                   0, 200, c.speed_variation, "Speed Variation",
                   "speed_variation", FALSE),
            Dropdown(panel_x + 20, 310, panel_width - 40, element_height,
                     ColorModeOptions, c.color_mode, "Color Mode",
                     "color_mode"),
            Dropdown(panel_x + 20, 370, panel_width - 40, element_height,
                     CharacterSetOptions, c.char_set, "Character Set",
                     "char_set"),
            ColorPicker(panel_x + 20, 430, 40, element_height, c.base_color,
                        "Base Color"),
            Button(panel_x + panel_width \div 2 - 50, 490, 100, element_height,
                   "Reset", [kind |-> "reset"]) >>]

\* UIControls(config, screen_width, screen_height)
UIControlsInit(c, screen_width, screen_height) ==
    LET made == _init_ui(c, screen_width, screen_height)
    IN [visible |-> TRUE, toggle_button |-> made.toggle_button,
        elements |-> made.elements]

\* UIControls.resize: the widgets are created anew, visible is kept
UIControlsResize(panel, c, screen_width, screen_height) ==
    LET made == _init_ui(c, screen_width, screen_height)
    IN [panel EXCEPT !.toggle_button = made.toggle_button,
                     !.elements = made.elements]

\* the keyword arguments of UIControls._reset_config
ResetKwargs ==
    [rain_speed |-> FieldDefaults.rain_speed,
     rain_density |-> FieldDefaults.rain_density,
     char_set |-> FieldDefaults.char_set,
     custom_chars |-> FieldDefaults.custom_chars,
     char_size_min |-> FieldDefaults.char_size_min,
     char_size_max |-> FieldDefaults.char_size_max,
     color_mode |-> FieldDefaults.color_mode,
     base_color |-> FieldDefaults.base_color,
     fading_speed |-> FieldDefaults.fading_speed,
     speed_variation |-> FieldDefaults.speed_variation]

\* the default a slider is set to by _reset_config, by its label
SliderDefault(label) ==
    CASE label = "Rain Speed" -> FieldDefaults.rain_speed
      [] label = "Rain Density" -> FieldDefaults.rain_density
      [] label = "Min Char Size" -> 100 * FieldDefaults.char_size_min
      [] label = "Max Char Size" -> 100 * FieldDefaults.char_size_max
      [] label = "Fade Speed" -> FieldDefaults.fading_speed
      [] label = "Speed Variation" -> FieldDefaults.speed_variation

\* the reset of the widgets that leaves the colour picker as it is
ResetElement_keeps_picker(el) ==
    CASE el.kind = "Slider" ->
           [el EXCEPT !.value = SliderDefault(el.label),
                      !.handle_pos = HandlePos(SliderDefault(el.label),
                                               el.min_val, el.max_val,
                                               el.rect.width)]
      [] el.kind = "Dropdown" /\ el.label = "Color Mode" ->
           [el EXCEPT !.value = FieldDefaults.color_mode,
                      !.display_text =
                          DisplayText(el.options, FieldDefaults.color_mode)]
      [] el.kind = "Dropdown" /\ el.label = "Character Set" ->
           [el EXCEPT !.value = FieldDefaults.char_set,
                      !.display_text =
                          DisplayText(el.options, FieldDefaults.char_set)]
      [] OTHER -> el

\* _reset_config, second part: the widgets are set to the defaults
ResetElement(el) ==
    CASE el.kind = "Slider" ->
           [el EXCEPT !.value = SliderDefault(el.label),
                      !.handle_pos = HandlePos(SliderDefault(el.label),
                                               el.min_val, el.max_val,
                                               el.rect.width)]
      [] el.kind = "Dropdown" /\ el.label = "Color Mode" ->
           [el EXCEPT !.value = FieldDefaults.color_mode,
                      !.display_text =
                          DisplayText(el.options, FieldDefaults.color_mode)]
      [] el.kind = "Dropdown" /\ el.label = "Character Set" ->
           [el EXCEPT !.value = FieldDefaults.char_set,
                      !.display_text =
                          DisplayText(el.options, FieldDefaults.char_set)]
      [] el.kind = "ColorPicker" ->
           [el EXCEPT !.color = FieldDefaults.base_color]
      [] OTHER -> el

\* the callback call run on the panel and the configuration c:
\* _toggle_visibility, _update_config or _reset_config.  A ValueError of
\* config.update is not caught: raised reports it, and the statements after
\* the update are not run.
RunCallback(panel, c, call) ==
    CASE call.kind = "toggle" ->
           [ui |-> [panel EXCEPT !.visible = ~panel.visible], cfg |-> c,
            raised |-> FALSE]
      [] call.kind = "update" ->
           LET r == update(c, call.kwargs)
           IN [ui |-> panel, cfg |-> r.cfg, raised |-> r.raised]
      [] call.kind = "reset" ->
           LET r == update(c, ResetKwargs)
           IN [ui |-> IF r.raised THEN panel
                      ELSE [panel EXCEPT !.elements =
                               [k \in DOMAIN panel.elements |->
                                   ResetElement(panel.elements[k])]],
               cfg |-> r.cfg, raised |-> r.raised]
      [] OTHER -> [ui |-> panel, cfg |-> c, raised |-> FALSE]

\* the index of the first element whose handle_event returned True, 0 when
\* there is none
FirstHandled(rs) ==
    IF \A k \in DOMAIN rs : ~rs[k].handled THEN 0
    ELSE CHOOSE k \in DOMAIN rs :
            rs[k].handled /\ \A j \in 1..(k - 1) : ~rs[j].handled

\* a loop that gives the event to every element
Visited_all(elements, rs, first) ==
    [k \in DOMAIN elements |-> rs[k].el]

\* the elements after the loop over them: those up to the first that handled
\* the event are as their handle_event left them
Visited(elements, rs, first) ==
    [k \in DOMAIN elements |->
        IF first = 0 \/ k <= first THEN rs[k].el ELSE elements[k]]

\* the loop over the elements ends at element first, whose handle_event gave
\* taker and whose callback gave ran: a ValueError of the callback goes up,
\* otherwise True is returned
CallbackOutcome(before, taker, first, ran) ==
    IF ran.raised
    THEN [ui |-> [before EXCEPT !.elements[first] = taker.el_exc],
          cfg |-> ran.cfg, result |-> FALSE, raised |-> TRUE,
          call |-> taker.call, handler |-> first]
    ELSE [ui |-> ran.ui, cfg |-> ran.cfg, result |-> TRUE, raised |-> FALSE,
          call |-> taker.call, handler |-> first]

\* for element in self.elements: if element.handle_event(event): return True
ElementLoop(before, c, rs, first) ==
    IF first = 0
    THEN [ui |-> before, cfg |-> c, result |-> FALSE, raised |-> FALSE,
          call |-> NoCallback, handler |-> 0]
    ELSE CallbackOutcome(before, rs[first], first,
                         RunCallback(before, c, rs[first].call))

\* a handle_event that asks the elements of a hidden panel as well
AfterToggle_hidden_too(panel, c, t, rs) ==
    IF t.handled
    THEN [ui |-> RunCallback([panel EXCEPT !.toggle_button = t.el], c, t.call).ui,
          cfg |-> c, result |-> FALSE, raised |-> FALSE, call |-> t.call,
          handler |-> 0]
    ELSE ElementLoop([panel EXCEPT !.toggle_button = t.el,
                                   !.elements = Visited(panel.elements, rs,
                                                        FirstHandled(rs))],
                     c, rs, FirstHandled(rs))

\* handle_event after the toggle button gave t and the elements, were they
\* asked, gave rs
AfterToggle(panel, c, t, rs) ==
    IF t.handled
    THEN [ui |-> RunCallback([panel EXCEPT !.toggle_button = t.el], c, t.call).ui,
          cfg |-> c, result |-> FALSE, raised |-> FALSE, call |-> t.call,
          handler |-> 0]
    ELSE IF ~panel.visible
    THEN [ui |-> [panel EXCEPT !.toggle_button = t.el], cfg |-> c,
          result |-> FALSE, raised |-> FALSE, call |-> NoCallback,
          handler |-> 0]
    ELSE ElementLoop([panel EXCEPT !.toggle_button = t.el,
                                   !.elements = Visited(panel.elements, rs,
                                                        FirstHandled(rs))],
                     c, rs, FirstHandled(rs))

\* UIControls.handle_event: the toggle button first, then, when the panel is
\* visible, the elements in order up to the first that handles the event.
\* The result has the panel and the configuration after the call, the value
\* returned (result), whether ValueError came out of it (raised), the
\* callback that ran (call) and the index of the element that handled the
\* event (handler: 0 for none or the toggle button).
UIControlsHandleEvent(panel, c, event) ==
    AfterToggle(panel, c, ButtonHandleEvent(panel.toggle_button, event),
                [k \in DOMAIN panel.elements |->
                    ElementHandleEvent(panel.elements[k], event)])

----------------------------------------------------------------------------
(* Inputs of the configuration specification                               *)

\* custom_chars "AB"
CharsAB == <<65, 66>>

\* keyword arguments given to MatrixConfig(...): main() passes width, height
\* and fullscreen; the rest are valid and invalid parameter sets
ConstructInputs ==
    { [width |-> 800, height |-> 600, fullscreen |-> FALSE],
      [width |-> 1200, height |-> 800, fullscreen |-> FALSE],
      [width |-> 639, height |-> 600],
      [width |-> 800, height |-> 4321],
      [width |-> 800, char_set |-> "CUSTOM"],
      [width |-> 800, char_set |-> "CUSTOM", custom_chars |-> CharsAB],
      [width |-> 800, char_size_min |-> 20, char_size_max |-> 10],
      [width |-> 800, char_size_min |-> 12, char_size_max |-> 12] }

\* partial updates: single fields in and out of range, several fields at once,
\* a key that is no attribute of the object
UpdateInputs ==
    { [rain_speed |-> 500], [rain_speed |-> 9], [rain_speed |-> 501],
      [rain_density |-> 200], [rain_density |-> 201], [rain_density |-> 9],
      [char_size_min |-> 20], [char_size_min |-> 5], [char_size_min |-> 41],
      [char_size_max |-> 18], [char_size_max |-> 5], [char_size_max |-> 41],
      [char_size_min |-> 30, char_size_max |-> 30],
      [char_size_min |-> 30, char_size_max |-> 29],
      [fading_speed |-> 50], [fading_speed |-> 0], [fading_speed |-> 51],
      [speed_variation |-> 201], [speed_variation |-> -1],
      [char_set |-> "BINARY"], [char_set |-> "CUSTOM"],
      [custom_chars |-> CharsAB], [custom_chars |-> <<>>],
      [char_set |-> "CUSTOM", custom_chars |-> CharsAB],
      [width |-> 639], [width |-> 7681], [height |-> 479],
      [rain_speed |-> 200, rain_density |-> 201],
      [bogus |-> 1],
      ResetKwargs }

----------------------------------------------------------------------------
(* Specification of the configuration object: construct and update calls   *)

NoCall == [op |-> "none", kwargs |-> [bogus |-> 0]]

\* no column is under study
NoColumn ==
    [x |-> 0, drops |-> <<>>, speed |-> 100, length |-> 0, active |-> FALSE,
     next_spawn_time |-> 0, color |-> <<0, 0, 0>>, size |-> 0]

ColumnIdle == column = NoColumn /\ now = 0 /\ rare = 0

\* no drop is under study
NoDrop ==
    [x |-> 0, y |-> 0, char |-> 0, speed |-> 0, color |-> <<0, 0, 0>>,
     brightness |-> 0, size |-> 0]

DropIdle == raindrop = NoDrop

\* no falling column and no rendered frame is under study
NoFall == [ages |-> <<>>]

NoFrame == [glyphs |-> <<>>]

RainIdle == fall = NoFall /\ frame = NoFrame

\* no renderer is under study
RendererIdle ==
    /\ columns = <<>>
    /\ last_time = 0
    /\ fonts = {}
    /\ clock = 0
    /\ col_ids = <<>>
    /\ next_id = 0
    /\ rend_op = "none"
    /\ discarded = 0

\* no frame loop is under study
NoPanel == [visible |-> FALSE, toggle_button |-> NoCallback, elements |-> <<>>]

\* no event was given to UIControls.handle_event yet
NoEvent == [type |-> "NONE", pos |-> <<0, 0>>, button |-> 0, key |-> ""]

NoStep ==
    [prev |-> NoPanel, event |-> NoEvent, result |-> FALSE, raised |-> FALSE,
     call |-> NoCallback, handler |-> 0,
     armed |-> [toggle |-> FALSE, reset |-> FALSE]]

PanelHistoryIdle ==
    /\ ui_last = NoStep
    /\ armed = [toggle |-> FALSE, reset |-> FALSE]

MainIdle ==
    /\ pc = "idle"
    /\ running = FALSE
    /\ exit_code = -1
    /\ pending = <<>>
    /\ ui = NoPanel
    /\ phases = <<>>
    /\ polled = 0
    /\ PanelHistoryIdle

InitConfig ==
    /\ RainIdle
    /\ \E p \in ConstructInputs :
         /\ ~Construct(p).raised
         /\ config = Construct(p).cfg
         /\ cfg_prev = Construct(p).cfg
    /\ cfg_call = NoCall
    /\ cfg_raised = FALSE
    /\ ColumnIdle
    /\ DropIdle
    /\ RendererIdle
    /\ MainIdle

\* config = MatrixConfig(**p): a constructor that raises binds no new object
CfgConstruct ==
    \E p \in ConstructInputs :
        LET r == Construct(p) IN
        /\ cfg_prev' = config
        /\ cfg_call' = [op |-> "construct", kwargs |-> p]
        /\ cfg_raised' = r.raised
        /\ config' = IF r.raised THEN config ELSE r.cfg
        /\ UNCHANGED <<rainVars, mainVars, colVars, dropVars, rendVars>>

\* config.update(**kw)
CfgUpdate ==
    \E kw \in UpdateInputs :
        LET r == update(config, kw) IN
        /\ cfg_prev' = config
        /\ cfg_call' = [op |-> "update", kwargs |-> kw]
        /\ cfg_raised' = r.raised
        /\ config' = r.cfg
        /\ UNCHANGED <<rainVars, mainVars, colVars, dropVars, rendVars>>

NextConfig == CfgConstruct \/ CfgUpdate

SpecConfig == InitConfig /\ [][NextConfig]_vars

----------------------------------------------------------------------------
(* Claims on the configuration object                                      *)

\* the attributes of the object that a call's keyword arguments name
NamedFields(kwargs) == DOMAIN kwargs \cap ConfigFields

\* C1: update either commits every field it names, or raises and leaves every
\* field (named or not, width and height included) at its value before the call.
C1_AllOrNothing ==
    cfg_call.op = "update" =>
        IF cfg_raised
        THEN config = cfg_prev
        ELSE \A f \in NamedFields(cfg_call.kwargs) : config[f] = cfg_call.kwargs[f]

\* C3: after any sequence of construct and update calls, accepted or rejected,
\* every numeric field lies within its declared bounds and
\* char_size_min <= char_size_max.
C3_FieldsWithinBounds ==
    /\ config.width \in 640..7680
    /\ config.height \in 480..4320
    /\ config.rain_speed \in 10..500
    /\ config.rain_density \in 10..200
    /\ config.char_size_min \in 6..40
    /\ config.char_size_max \in 6..40
    /\ config.fading_speed \in 1..50
    /\ config.speed_variation \in 0..200
    /\ config.char_size_min <= config.char_size_max

\* C3 witness: an out-of-range update was rejected on an object that an earlier
\* accepted update had moved away from the defaults.
C3_Witness ==
    /\ cfg_call.op = "update"
    /\ cfg_raised
    /\ "fading_speed" \in DOMAIN cfg_call.kwargs
    /\ cfg_call.kwargs.fading_speed = 51
    /\ cfg_prev.rain_speed = 500

\* the configuration a call tried to establish: the keyword arguments laid
\* over the defaults (construct) or over the object before the call (update)
Attempted ==
    SetAttrs(IF cfg_call.op = "construct" THEN FieldDefaults ELSE cfg_prev,
             cfg_call.kwargs)

\* the characters of a palette
Glyphs(palette) == {palette[k] : k \in DOMAIN palette}

\* C11: after any sequence of construct and update calls, accepted or
\* rejected, the cached palette is the palette of the current char_set and
\* custom_chars, get_random_char returns only members of it, and with
\* char_set BINARY it returns only '0' or '1'.
C11_PaletteMatchesCharSet ==
    /\ config._cached_chars = CharSetFor(config.char_set, config.custom_chars)
    /\ \A u \in 0..99 :
         /\ get_random_char(config, u) \in
               Glyphs(CharSetFor(config.char_set, config.custom_chars))
         /\ config.char_set = "BINARY" => get_random_char(config, u) \in {48, 49}
         /\ config.char_set = "CUSTOM" =>
               get_random_char(config, u) \in Glyphs(config.custom_chars)

\* C11 witness: an accepted update moved the object to BINARY from another
\* character set.
C11_Witness ==
    /\ cfg_call.op = "update"
    /\ ~cfg_raised
    /\ "char_set" \in DOMAIN cfg_call.kwargs
    /\ config.char_set = "BINARY"
    /\ cfg_prev.char_set # "BINARY"

\* C12: with all other fields valid, a construct or an update that would
\* leave char_size_max < char_size_min is rejected, and one that leaves
\* char_size_max = char_size_min is accepted.
C12_SizeOrderValidated ==
    cfg_call.op \in {"construct", "update"} =>
        /\ Attempted.char_size_max < Attempted.char_size_min => cfg_raised
        /\ ( /\ Attempted.char_size_max = Attempted.char_size_min
             /\ Attempted.char_size_min \in 6..40
             /\ Attempted.width \in 640..7680
             /\ Attempted.height \in 480..4320
             /\ Attempted.rain_speed \in 10..500
             /\ Attempted.rain_density \in 10..200
             /\ Attempted.fading_speed \in 1..50
             /\ Attempted.speed_variation \in 0..200
             /\ ~(Attempted.char_set = "CUSTOM" /\ Attempted.custom_chars = <<>>) )
           => ~cfg_raised

\* C12 witness: an update to equal sizes was accepted on an object whose
\* sizes differed.
C12_Witness ==
    /\ cfg_call.op = "update"
    /\ ~cfg_raised
    /\ "char_size_min" \in DOMAIN cfg_call.kwargs
    /\ config.char_size_min = config.char_size_max
    /\ cfg_prev.char_size_min # cfg_prev.char_size_max

\* C13: with all other fields valid, char_set CUSTOM with empty custom_chars
\* is rejected on construct and on update, and char_set CUSTOM with
\* non-empty custom_chars is accepted.
C13_CustomNeedsChars ==
    cfg_call.op \in {"construct", "update"} =>
        /\ Attempted.char_set = "CUSTOM" /\ Attempted.custom_chars = <<>>
              => cfg_raised
        /\ ( /\ Attempted.char_set = "CUSTOM"
             /\ Attempted.custom_chars # <<>>
             /\ Attempted.char_size_min \in 6..40
             /\ Attempted.char_size_max \in 6..40
             /\ Attempted.char_size_min <= Attempted.char_size_max
             /\ Attempted.width \in 640..7680
             /\ Attempted.height \in 480..4320
             /\ Attempted.rain_speed \in 10..500
             /\ Attempted.rain_density \in 10..200
             /\ Attempted.fading_speed \in 1..50
             /\ Attempted.speed_variation \in 0..200 )
           => ~cfg_raised /\ config.char_set = "CUSTOM"

\* C13 witness: an update emptied custom_chars of an object with char_set
\* CUSTOM and was rejected.
C13_Witness ==
    /\ cfg_call.op = "update"
    /\ cfg_raised
    /\ cfg_prev.char_set = "CUSTOM"
    /\ "custom_chars" \in DOMAIN cfg_call.kwargs
    /\ cfg_call.kwargs.custom_chars = <<>>

----------------------------------------------------------------------------
(* Specification of one rain column: RainColumn.update called once per      *)
(* frame with the growing clock, under a configuration that the UI may      *)
(* change between frames                                                    *)

\* milliseconds between two frames of the column under study
TickGap == 100

\* how many frames one run explores
MaxTicks == 8

\* how many rare events one run takes: a glyph re-roll, a deactivation, a
\* reactivation, a configuration change
MaxRare == 2

\* configurations the column runs under
ColumnConfigs ==
    { DefaultConfig,
      update(DefaultConfig,
             [rain_speed |-> 500, rain_density |-> 200, speed_variation |-> 200,
              char_set |-> "BINARY"]).cfg }

\* live changes made through the panel
ColumnUpdates ==
    { [rain_density |-> 10],
      [color_mode |-> "RAINBOW"] }

\* draws of reset_matrix for the column
ResetDraws ==
    [jitter : {-3, 3}, speed_u : {-100, 100}, length : {5, 30}, size_u : {0},
     active : BOOLEAN, delay : {0, 200}]

\* draws of one RainColumn.update call on column c
TickDraws(c) ==
    [reroll : {0} \cup ({1} \cap DOMAIN c.drops),
     char_u : {99}, spawn_u : {0}, delay_u : {0, 99},
     deactivate : BOOLEAN,
     reactivate : BOOLEAN, react_delay : {0, 1000}]

\* the rare outcomes among the draws rnd for column c
RareCount(c, rnd) ==
    (IF rnd.reroll > 0 THEN 1 ELSE 0)
    + (IF rnd.deactivate THEN 1 ELSE 0)
    + (IF rnd.reactivate THEN 1 ELSE 0)

InitColumn ==
    /\ RainIdle
    /\ config \in ColumnConfigs
    /\ cfg_prev = config
    /\ cfg_call = NoCall
    /\ cfg_raised = FALSE
    /\ \E rr \in ResetDraws : column = NewColumn(config, 0, rr)
    /\ now = 0
    /\ rare = 0
    /\ DropIdle
    /\ RendererIdle
    /\ MainIdle

\* one frame: RainColumn.update(config, current_time)
ColumnTick ==
    /\ now + TickGap <= MaxTicks * TickGap
    /\ \E rnd \in TickDraws(column) :
         /\ rare + RareCount(column, rnd) <= MaxRare
         /\ column' = RainColumnUpdate(column, config, now + TickGap, rnd)
         /\ rare' = rare + RareCount(column, rnd)
    /\ now' = now + TickGap
    /\ UNCHANGED <<rainVars, mainVars, cfgVars, dropVars, rendVars>>

\* a widget callback changes the configuration between two frames
ColumnConfigChange ==
    /\ rare < MaxRare
    /\ \E kw \in ColumnUpdates :
         LET r == update(config, kw) IN
         /\ ~r.raised
         /\ r.cfg # config
         /\ config' = r.cfg
         /\ cfg_prev' = config
         /\ cfg_call' = [op |-> "update", kwargs |-> kw]
         /\ cfg_raised' = FALSE
    /\ rare' = rare + 1
    /\ UNCHANGED <<rainVars, mainVars, column, now, dropVars, rendVars>>

NextColumn == ColumnTick \/ ColumnConfigChange

SpecColumn == InitColumn /\ [][NextColumn]_vars

----------------------------------------------------------------------------
(* Claims on one rain column                                               *)

\* C4: a column that is dormant at the start of a frame gains no drop in that
\* frame, whatever the clock and its spawn deadline are: while the column stays
\* dormant its drop count never increases.
C4_DormantNeverSpawns ==
    [][~column.active => Len(column'.drops) <= Len(column.drops)]_vars

\* C4 witness: a dormant column that holds drops, has room for more and whose
\* spawn deadline has passed has gone through a frame without spawning.
C4_Witness ==
    /\ ~column.active
    /\ Len(column.drops) >= 1
    /\ Len(column.drops) < column.length
    /\ now >= column.next_spawn_time
    /\ now >= 2 * TickGap

\* C5: a column never holds more drops than its length, and a frame adds at
\* most one drop.
C5_DropsWithinLength ==
    /\ [](Len(column.drops) <= column.length)
    /\ [][Len(column'.drops) <= Len(column.drops) + 1]_vars

\* C5 witness: an active column is full and its spawn deadline has passed, so
\* only the length test holds the spawn back.
C5_Witness ==
    /\ column.active
    /\ column.length > 0
    /\ Len(column.drops) = column.length
    /\ now >= column.next_spawn_time

----------------------------------------------------------------------------
(* Specification of one rain drop: RainDrop.update called once per frame    *)
(* for as long as its column keeps the drop, while the Fade Speed slider    *)
(* may change fading_speed between frames                                   *)

\* the configuration the drop falls under
DropConfig ==
    update(DefaultConfig,
           [rain_speed |-> 200, speed_variation |-> 0, char_set |-> "BINARY",
            fading_speed |-> 50]).cfg

\* the values the Fade Speed slider is moved between
FadeChoices == {50, 30}

InitDrop ==
    /\ RainIdle
    /\ config = DropConfig
    /\ cfg_prev = config
    /\ cfg_call = NoCall
    /\ cfg_raised = FALSE
    /\ ColumnIdle
    /\ RendererIdle
    /\ MainIdle
    /\ \E jitter \in {-3, 3} :
         LET owner == NewColumn(config, 0,
                        [jitter |-> jitter, speed_u |-> 0, length |-> 5,
                         size_u |-> 0, active |-> TRUE, delay |-> 0])
         IN raindrop = NewDrop(owner, owner.color, get_random_char(config, 0))

\* one frame of the owning column: RainDrop.update, for a drop the column has
\* not removed
DropTick ==
    /\ ~is_offscreen(raindrop, config.height)
    /\ \E reroll \in BOOLEAN : \E u \in {0, 99} :
         raindrop' = RainDropUpdate(raindrop, config, reroll, u)
    /\ UNCHANGED <<rainVars, mainVars, cfgVars, colVars, rendVars>>

\* the Fade Speed slider's callback between two frames
DropFadeChange ==
    /\ \E f \in FadeChoices :
         LET r == update(config, [fading_speed |-> f]) IN
         /\ ~r.raised
         /\ r.cfg # config
         /\ config' = r.cfg
         /\ cfg_prev' = config
         /\ cfg_call' = [op |-> "update", kwargs |-> [fading_speed |-> f]]
         /\ cfg_raised' = FALSE
    /\ UNCHANGED <<rainVars, mainVars, colVars, dropVars, rendVars>>

NextDrop == DropTick \/ DropFadeChange

SpecDrop == InitDrop /\ [][NextDrop]_vars

----------------------------------------------------------------------------
(* Claims on one rain drop                                                 *)

\* C6: starting from brightness 1.0, after any number of frames and with any
\* fading_speed in 0.01..0.5, changed between frames or not, a drop's
\* brightness is never below 0.2.
C6_BrightnessFloor == raindrop.brightness >= 2000

----------------------------------------------------------------------------
(* Specification of the renderer: MatrixRenderer.update once per frame,     *)
(* reset_matrix and resize as main() calls them                             *)

\* the clock value after which no further frame is explored
MaxClock == 1501

\* time between two readings of the clock: the longest gap that is still
\* processed and the shortest gap that is skipped
RendererGaps == {SkipThreshold, SkipThreshold + 1}

\* draws of reset_matrix: the columns created take them in turn
ResetPatterns ==
    { << [jitter |-> -3, speed_u |-> 100, length |-> 5, size_u |-> 0,
          active |-> TRUE, delay |-> 0],
         [jitter |-> 3, speed_u |-> -100, length |-> 30, size_u |-> 99,
          active |-> FALSE, delay |-> 2000] >> }

\* the draws of the n columns of a reset, from a pattern
ResetDrawsFor(pattern, n) == [k \in 1..n |-> pattern[1 + (k % 2)]]

\* the draws most columns take in a frame: no rare outcome
CommonDraws ==
    [reroll : {0}, char_u : {0}, spawn_u : {0}, delay_u : {50},
     deactivate : {FALSE}, reactivate : {FALSE}, react_delay : {0}]

\* draws with one rare outcome
RareDraws ==
    { [reroll |-> 1, char_u |-> 99, spawn_u |-> 0, delay_u |-> 0,
       deactivate |-> FALSE, reactivate |-> FALSE, react_delay |-> 0],
      [reroll |-> 0, char_u |-> 0, spawn_u |-> 0, delay_u |-> 0,
       deactivate |-> TRUE, reactivate |-> FALSE, react_delay |-> 0],
      [reroll |-> 0, char_u |-> 0, spawn_u |-> 0, delay_u |-> 0,
       deactivate |-> FALSE, reactivate |-> TRUE, react_delay |-> 0] }

\* the draws of a frame: column k (0: none) takes the rare ones
FrameDraws(common, k, special, n) ==
    [j \in 1..n |-> IF j = k THEN special ELSE common]

\* configuration changes made through the panel
RendererUpdates ==
    { [char_size_max |-> 18],
      [char_size_min |-> 6, char_size_max |-> 8] }

\* the drops held by the columns cols
DropCount(cols) ==
    Cardinality({kj \in (1..Len(cols)) \X (1..MaxLength) :
                    kj[2] <= Len(cols[kj[1]].drops)})

\* identities for n new RainColumn objects
FreshIds(n) == [k \in 1..n |-> next_id + k - 1]

\* self.columns = [] followed by the loop that creates the new columns
ResetColumns(c, op) ==
    /\ \E pattern \in ResetPatterns :
         columns' = ResetMatrix(c, ResetDrawsFor(pattern, NumColumns(c)))
    /\ col_ids' = FreshIds(NumColumns(c))
    /\ next_id' = next_id + NumColumns(c)
    /\ discarded' = DropCount(columns)
    /\ rend_op' = op

\* MatrixRenderer(config) in main(), for the window sizes main() may get
InitRenderer ==
    /\ RainIdle
    /\ \E p \in { [width |-> 800, height |-> 600, fullscreen |-> FALSE],
                  [width |-> 1200, height |-> 800, fullscreen |-> FALSE] } :
         config = Construct(p).cfg
    /\ cfg_prev = config
    /\ cfg_call = NoCall
    /\ cfg_raised = FALSE
    /\ ColumnIdle
    /\ DropIdle
    /\ clock = 0
    /\ last_time = 0
    /\ \E pattern \in ResetPatterns :
         columns = ResetMatrix(config, ResetDrawsFor(pattern, NumColumns(config)))
    /\ col_ids = [k \in 1..NumColumns(config) |-> k]
    /\ next_id = NumColumns(config) + 1
    /\ fonts = PreloadedSizes(config)
    /\ rend_op = "init"
    /\ discarded = 0
    /\ MainIdle

\* renderer.update() of one frame
RendererUpdate ==
    \E gap \in RendererGaps :
      /\ clock + gap <= MaxClock
      /\ clock' = clock + gap
      /\ \E common \in CommonDraws :
         \E k \in {0, 1, 2} :
         \E special \in (IF k = 0 THEN {common} ELSE RareDraws) :
            LET r == MatrixRendererUpdate(columns, last_time, clock + gap, config,
                        FrameDraws(common, k, special, Len(columns)))
            IN /\ k # 0 => rare < MaxRare
               /\ rare' = IF k = 0 THEN rare ELSE rare + 1
               /\ columns' = r.columns
               /\ last_time' = r.last_time
               /\ rend_op' = IF r.skipped THEN "skip" ELSE "update"
      /\ UNCHANGED <<rainVars, mainVars, cfgVars, column, now, dropVars, fonts,
                     col_ids, next_id, discarded>>

\* renderer.reset_matrix(), called by main() when the panel reports an event
RendererReset ==
    /\ rare < MaxRare
    /\ rare' = rare + 1
    /\ ResetColumns(config, "reset")
    /\ UNCHANGED <<rainVars, mainVars, cfgVars, column, now, dropVars, last_time,
                   fonts, clock>>

\* a widget callback updates the configuration and main() calls reset_matrix
RendererConfigChange ==
    /\ rare < MaxRare
    /\ rare' = rare + 1
    /\ \E kw \in RendererUpdates :
         LET r == update(config, kw) IN
         /\ ~r.raised
         /\ r.cfg # config
         /\ config' = r.cfg
         /\ cfg_prev' = config
         /\ cfg_call' = [op |-> "update", kwargs |-> kw]
         /\ cfg_raised' = FALSE
         /\ ResetColumns(r.cfg, "reset")
    /\ UNCHANGED <<rainVars, mainVars, column, now, dropVars, last_time, fonts, clock>>

\* the F key in main(): config.fullscreen is flipped and renderer.resize(config)
\* resets the columns and preloads the fonts
RendererResize ==
    /\ rare < MaxRare
    /\ rare' = rare + 1
    /\ config' = [config EXCEPT !.fullscreen = ~config.fullscreen]
    /\ ResetColumns(config', "resize")
    /\ fonts' = PreloadedSizes(config')
    /\ UNCHANGED <<rainVars, mainVars, cfg_prev, cfg_call, cfg_raised, column, now,
                   dropVars, last_time, clock>>

NextRenderer ==
    RendererUpdate \/ RendererReset \/ RendererConfigChange \/ RendererResize

SpecRenderer == InitRenderer /\ [][NextRenderer]_vars

----------------------------------------------------------------------------
(* Claims on the renderer                                                  *)

\* C9: when more than 500 ms have passed since the previous update call, the
\* call changes no column and no drop, and it still advances last_time to the
\* clock, so that the next gap is measured from the skipped frame.
C9_LongGapSkipsUpdate ==
    /\ [][clock' - last_time > 500 => columns' = columns]_vars
    /\ [](last_time = clock)

\* C9 witness: a frame was skipped while columns held drops and an active
\* column with room for more was past its spawn deadline.
C9_Witness ==
    /\ rend_op = "skip"
    /\ \E k \in DOMAIN columns :
         /\ Len(columns[k].drops) >= 1
         /\ columns[k].active
         /\ Len(columns[k].drops) < columns[k].length
         /\ clock >= columns[k].next_spawn_time

\* the ids in a sequence of ids
IdSet(ids) == {ids[k] : k \in DOMAIN ids}

\* C10: after reset_matrix the number of columns is
\* floor(width / max(10, char_size_max + 2)), every column has an empty drop
\* list and no column that existed before the reset remains.
C10_ResetReplacesColumns ==
    /\ [](rend_op \in {"reset", "resize"} =>
            /\ Len(columns) =
                 config.width \div (IF config.char_size_max + 2 > 10
                                    THEN config.char_size_max + 2 ELSE 10)
            /\ \A k \in DOMAIN columns : columns[k].drops = <<>>)
    /\ [][rend_op' \in {"reset", "resize"} /\ next_id' # next_id =>
            /\ Len(col_ids') = Len(columns')
            /\ IdSet(col_ids') \cap IdSet(col_ids) = {}]_vars

\* C10 witness: a reset at width 800 and char_size_max 18 threw away drops and
\* left 40 columns.
C10_Witness ==
    /\ rend_op = "reset"
    /\ discarded > 0
    /\ config.width = 800
    /\ config.char_size_max = 18
    /\ Len(columns) = 40

----------------------------------------------------------------------------
(* Specification of the frame loop of main(): events, update, render       *)

\* milliseconds between two frames: clock.tick(60)
FrameGap == 16

\* frames explored
MaxFrames == 2

\* events delivered over a run, and by one pygame.event.get()
MaxEvents == 3

MaxBatch == 2

KeyDown(key) == [type |-> "KEYDOWN", pos |-> <<0, 0>>, button |-> 0, key |-> key]

Mouse(type, x, y) == [type |-> type, pos |-> <<x, y>>, button |-> 1, key |-> ""]

\* the events a run may get, for a window 800 wide: window close, Escape, F,
\* a press on the handle of the Rain Speed slider and on that of the Min Char
\* Size slider, a motion to and a release at the right end of the track, a
\* press on the Character Set dropdown and on its option Custom, a press and
\* a release on the toggle button and on the Reset button
MainEvents ==
    { [type |-> "QUIT", pos |-> <<0, 0>>, button |-> 0, key |-> ""],
      KeyDown("ESCAPE"),
      KeyDown("f"),
      Mouse("MOUSEBUTTONDOWN", 565, 60),
      Mouse("MOUSEBUTTONDOWN", 550, 140),
      Mouse("MOUSEMOTION", 780, 60),
      Mouse("MOUSEBUTTONUP", 780, 60),
      Mouse("MOUSEBUTTONDOWN", 600, 380),
      Mouse("MOUSEBUTTONDOWN", 600, 530),
      Mouse("MOUSEBUTTONDOWN", 770, 20),
      Mouse("MOUSEBUTTONUP", 770, 20),
      Mouse("MOUSEBUTTONDOWN", 650, 500),
      Mouse("MOUSEBUTTONUP", 650, 500) }

\* what pygame.event.get() may return
EventBatches ==
    UNION {[1..n -> MainEvents] : n \in 0..MaxBatch}

\* the display main() finds, and with it the window: width = min(1200, w),
\* height = min(800, h)
DisplaySizes == {<<800, 600>>}

\* main() up to "running = True"
InitMain ==
    /\ RainIdle
    /\ \E d \in DisplaySizes :
         config = Construct([width |-> IF d[1] < 1200 THEN d[1] ELSE 1200,
                             height |-> IF d[2] < 800 THEN d[2] ELSE 800,
                             fullscreen |-> FALSE]).cfg
    /\ cfg_prev = config
    /\ cfg_call = NoCall
    /\ cfg_raised = FALSE
    /\ ColumnIdle
    /\ DropIdle
    /\ clock = 0
    /\ last_time = 0
    /\ \E pattern \in ResetPatterns :
         columns = ResetMatrix(config, ResetDrawsFor(pattern, NumColumns(config)))
    /\ col_ids = [k \in 1..NumColumns(config) |-> k]
    /\ next_id = NumColumns(config) + 1
    /\ fonts = PreloadedSizes(config)
    /\ rend_op = "init"
    /\ discarded = 0
    /\ ui = UIControlsInit(config, config.width, config.height)
    /\ pc = "poll"
    /\ running = TRUE
    /\ exit_code = -1
    /\ pending = <<>>
    /\ phases = <<>>
    /\ polled = 0
    /\ PanelHistoryIdle

\* "while running" holds and pygame.event.get() returns the pending events
MainPoll ==
    /\ pc = "poll"
    /\ running
    /\ clock < MaxFrames * FrameGap
    /\ \E batch \in EventBatches :
         /\ polled + Len(batch) <= MaxEvents
         /\ pending' = batch
         /\ polled' = polled + Len(batch)
    /\ pc' = "events"
    /\ phases' = <<>>
    /\ UNCHANGED <<rainVars, cfgVars, colVars, dropVars, rendVars, running, exit_code, ui,
                   uiVars>>

\* "while running" fails: pygame.quit() and return 0
MainReturn ==
    /\ pc = "poll"
    /\ ~running
    /\ pc' = "exit"
    /\ exit_code' = 0
    /\ UNCHANGED <<rainVars, cfgVars, colVars, dropVars, rendVars, running, pending, ui,
                   phases, polled, uiVars>>

\* the for loop over the events has run out
EventLoopDone_early(queue) == Len(queue) <= 1

EventLoopDone(queue) == queue = <<>>

\* why an event made main() replace the columns
ResetCause(panel, r, full) ==
    IF r.result
    THEN IF panel.elements[r.handler].kind = "Button" THEN "reset"
         ELSE IF r.call.kind = "update" THEN "changed"
         ELSE "handled"
    ELSE IF full THEN "resize" ELSE "none"

\* only the window close ends the loop
QuitEvent_close_only(event) == event.type = "QUIT"

\* event.type == QUIT, or KEYDOWN with K_ESCAPE
QuitEvent(event) ==
    \/ event.type = "QUIT"
    \/ event.type = "KEYDOWN" /\ event.key = "ESCAPE"

\* KEYDOWN with K_f
FullscreenKey(event) == event.type = "KEYDOWN" /\ event.key = "f"

\* config.fullscreen = not config.fullscreen, on the F key
AfterKeyConfig(c, event) ==
    IF FullscreenKey(event) THEN [c EXCEPT !.fullscreen = ~c.fullscreen] ELSE c

\* ui_controls.resize(screen.get_width(), screen.get_height()), on the F key
AfterKeyPanel(panel, c, event) ==
    IF FullscreenKey(event) THEN UIControlsResize(panel, c, c.width, c.height)
    ELSE panel

\* the rest of the loop body once ui_controls.handle_event gave r; full says
\* that the F key resized the renderer before, cause why the columns are
\* replaced, if they are
AfterHandleEvent(c1, r, full, cause) ==
    /\ ui' = r.ui
    /\ config' = r.cfg
    /\ IF r.call.kind \in {"update", "reset"}
       THEN /\ cfg_prev' = c1
            /\ cfg_call' = [op |-> "update",
                            kwargs |-> IF r.call.kind = "update"
                                       THEN r.call.kwargs ELSE ResetKwargs]
            /\ cfg_raised' = r.raised
       ELSE UNCHANGED <<cfg_prev, cfg_call, cfg_raised>>
    /\ IF cause # "none"
       THEN /\ \E pattern \in ResetPatterns :
                 columns' = ResetMatrix(r.cfg,
                               ResetDrawsFor(pattern, NumColumns(r.cfg)))
            /\ col_ids' = [k \in 1..NumColumns(r.cfg) |->
                              next_id + k - 1
                              + (IF full /\ r.result THEN NumColumns(c1) ELSE 0)]
            /\ next_id' = next_id + NumColumns(r.cfg)
                          + (IF full /\ r.result THEN NumColumns(c1) ELSE 0)
            /\ discarded' = DropCount(columns)
            /\ rend_op' = cause
       ELSE UNCHANGED <<columns, col_ids, next_id, discarded, rend_op>>
    /\ fonts' = IF full THEN PreloadedSizes(c1) ELSE fonts
    /\ phases' = Append(phases, IF cause = "none" THEN "event" ELSE cause)
    /\ IF r.raised
       THEN pc' = "exit" /\ exit_code' = 1
       ELSE pc' = "events" /\ exit_code' = exit_code

\* the loop body from ui_controls.handle_event on, for the configuration c1
\* and the panel ui1 the key handling left
HandleUIEvent(event, c1, ui1, r) ==
    AfterHandleEvent(c1, r, FullscreenKey(event),
                     ResetCause(ui1, r, FullscreenKey(event)))

\* the body of the for loop for one event: quit and Escape clear running, F
\* toggles fullscreen and resizes the panel and the renderer; then the panel
\* handles the event and, when it returns True, the matrix is reset.  A
\* ValueError out of the panel leaves the loop: handle_error and return 1.
MainEvent ==
    /\ pc = "events"
    /\ pending # <<>>
    /\ running' = (running /\ ~QuitEvent(Head(pending)))
    /\ pending' = Tail(pending)
    /\ HandleUIEvent(Head(pending),
                     AfterKeyConfig(config, Head(pending)),
                     AfterKeyPanel(ui, AfterKeyConfig(config, Head(pending)),
                                   Head(pending)),
                     UIControlsHandleEvent(
                         AfterKeyPanel(ui, AfterKeyConfig(config, Head(pending)),
                                       Head(pending)),
                         AfterKeyConfig(config, Head(pending)),
                         Head(pending)))
    /\ UNCHANGED <<rainVars, colVars, dropVars, last_time, clock, polled, uiVars>>

\* renderer.update(), once the events of the frame are handled
MainUpdate ==
    /\ pc = "events"
    /\ EventLoopDone(pending)
    /\ \E common \in CommonDraws :
         LET r == MatrixRendererUpdate(columns, last_time, clock, config,
                     FrameDraws(common, 0, common, Len(columns)))
         IN /\ columns' = r.columns
            /\ last_time' = r.last_time
    /\ pc' = "render"
    /\ phases' = Append(phases, "update")
    /\ UNCHANGED <<rainVars, cfgVars, colVars, dropVars, fonts, clock, col_ids, next_id,
                   rend_op, discarded, running, exit_code, pending, ui, polled,
                   uiVars>>

\* renderer.render(screen), ui_controls.draw(screen), flip and clock.tick(60):
\* the columns are read, the frame is shown and the next frame is due
MainRender ==
    /\ pc = "render"
    /\ clock' = clock + FrameGap
    /\ pc' = "poll"
    /\ phases' = Append(phases, "render")
    /\ UNCHANGED <<rainVars, cfgVars, colVars, dropVars, columns, last_time, fonts,
                   col_ids, next_id, rend_op, discarded, running, exit_code,
                   pending, ui, polled, uiVars>>

NextMain == MainPoll \/ MainReturn \/ MainEvent \/ MainUpdate \/ MainRender

SpecMain == InitMain /\ [][NextMain]_vars

----------------------------------------------------------------------------
(* Claims on the frame loop                                                *)

\* C2: a configuration update that is rejected while a UI event is handled
\* does not end the frame loop: after the ValueError the loop is still
\* running its frame (it has not left with exit code 1).
C2_RejectedUpdateContained ==
    cfg_raised => (pc # "exit" \/ exit_code = 0)

\* C7: the columns are replaced only by a resize (F key) or by a reset
\* request (the Reset button); an event a widget merely handles, or one that
\* changes a value through a widget, leaves the columns and their drops.
C7_DiscardOnlyByResizeOrReset ==
    [][col_ids' # col_ids => rend_op' \in {"resize", "reset"}]_vars

\* the place of a log entry in the order of the phases of a frame
PhaseRank(p) ==
    CASE p = "update" -> 2
      [] p = "render" -> 3
      [] OTHER -> 1

\* C8: in every frame all pending events are handled, resets and resizes
\* included, before the update starts, and the update is over before the
\* render starts: the log of a frame is events, then one update, then one
\* render; no event is pending once the update has run; the columns change
\* in the event phase or by the update, never during or after the render.
C8_PhasesInOrder ==
    /\ [](\A i, j \in DOMAIN phases :
            i < j => /\ PhaseRank(phases[i]) <= PhaseRank(phases[j])
                     /\ PhaseRank(phases[j]) > 1 =>
                          PhaseRank(phases[i]) < PhaseRank(phases[j]))
    /\ [](pc = "render" => pending = <<>> /\ phases[Len(phases)] = "update")
    /\ [][columns' # columns =>
            /\ pc = "events"
            /\ \A i \in DOMAIN phases : PhaseRank(phases[i]) = 1
            /\ PhaseRank(phases'[Len(phases')]) <= 2]_vars

\* C8 witness: a frame in which F resized the matrix, a slider press reset
\* it, the update ran and the render finished.
C8_Witness ==
    /\ pc = "poll"
    /\ phases = <<"resize", "handled", "update", "render">>

\* what is left of the current frame: the events still pending, then the
\* update, the render and the test of "while running"
StepsLeft ==
    CASE pc = "events" -> Len(pending) + 3
      [] pc = "render" -> 2
      [] pc = "poll" -> 1
      [] OTHER -> 0

\* C25: once a QUIT event or an Escape key-down has been handled, running is
\* False and stays so, no further frame is started (the next test of "while
\* running" leaves the loop with exit code 0) and every step brings the
\* return nearer, so that main() returns after the current frame; it returns
\* 0 unless an exception escaped, and 1 only when one did
C25_QuitEndsLoopWithZero ==
    /\ [][/\ pc = "events" /\ pending # <<>>
          /\ \/ Head(pending).type = "QUIT"
             \/ Head(pending).type = "KEYDOWN" /\ Head(pending).key = "ESCAPE"
          => ~running']_vars
    /\ [][~running => ~running' /\ ~(pc = "poll" /\ pc' = "events")]_vars
    /\ [][~running /\ pc = "poll" => pc' = "exit" /\ exit_code' = 0]_vars
    /\ [](pc = "exit" <=> exit_code # -1)
    /\ [](exit_code \in {-1, 0, 1})
    /\ [](exit_code = 1 <=> pc = "exit" /\ cfg_raised)
    /\ [](exit_code = 0 => ~running)
    /\ [][~running => StepsLeft' < StepsLeft]_vars
    /\ [](~running /\ pc # "exit" => StepsLeft > 0)

\* C25 witness: Escape or QUIT was handled, the frame it came in was updated
\* and rendered, and main() returned 0
C25_Witness ==
    /\ pc = "exit"
    /\ exit_code = 0
    /\ ~running
    /\ Len(phases) >= 3
    /\ phases[Len(phases)] = "render"


----------------------------------------------------------------------------
(* Specification of the control panel: UIControls.handle_event on a panel   *)
(* made for an 800 x 600 window, one pygame event at a time                *)

\* how many events a run delivers
MaxUIEvents == 5

MouseButton(type, x, y, button) ==
    [type |-> type, pos |-> <<x, y>>, button |-> button, key |-> ""]

\* the events a run may get.  (770, 20) is inside the toggle button;
\* (565, 60) is on the handle of the Rain Speed slider, (640, 100) on that of
\* the Rain Density slider; x = 400 is left of the tracks and x = 790 right
\* of them; (600, 320) is inside the Color Mode dropdown, (600, 380) inside
\* the Character Set dropdown and, when the Color Mode list is open, on its
\* option Custom; (600, 500) is inside the Reset button and, when the
\* Character Set list is open, on its option Binary, (600, 530) on its option
\* Custom; (530, 440) is inside the colour box, (560, 470) inside the second
\* swatch, (552, 470) between the first two swatches; (100, 100) is outside
\* every widget.
UIEvents ==
    { Mouse("MOUSEBUTTONDOWN", 770, 20),
      Mouse("MOUSEBUTTONUP", 770, 20),
      MouseButton("MOUSEBUTTONDOWN", 770, 20, 3),
      MouseButton("MOUSEBUTTONUP", 770, 20, 3),
      Mouse("MOUSEBUTTONDOWN", 565, 60),
      Mouse("MOUSEMOTION", 400, 60),
      Mouse("MOUSEMOTION", 790, 60),
      Mouse("MOUSEMOTION", 600, 60),
      Mouse("MOUSEBUTTONUP", 600, 60),
      Mouse("MOUSEBUTTONDOWN", 640, 100),
      Mouse("MOUSEBUTTONDOWN", 600, 320),
      Mouse("MOUSEBUTTONDOWN", 600, 380),
      Mouse("MOUSEBUTTONDOWN", 600, 500),
      Mouse("MOUSEBUTTONUP", 650, 500),
      Mouse("MOUSEBUTTONDOWN", 600, 530),
      Mouse("MOUSEBUTTONDOWN", 530, 440),
      Mouse("MOUSEBUTTONDOWN", 560, 470),
      Mouse("MOUSEBUTTONDOWN", 552, 470),
      Mouse("MOUSEBUTTONDOWN", 100, 100) }

\* whether UIControls.handle_event gives the event to element k: the panel is
\* visible, the toggle button did not handle the event and no element before
\* k did
Reaches(panel, event, k) ==
    /\ panel.visible
    /\ ~ButtonHandleEvent(panel.toggle_button, event).handled
    /\ \A j \in 1..(k - 1) :
          ~ElementHandleEvent(panel.elements[j], event).handled

\* history of the presses on a button with rectangle rect that was given the
\* event or not: a left press inside arms it, any left release disarms it
ArmedAfter(was, rect, event, given) ==
    IF ~given THEN was
    ELSE IF LeftDown(event) /\ collidepoint(rect, event.pos) THEN TRUE
    ELSE IF LeftUp(event) THEN FALSE
    ELSE was

\* the index of the Reset button in UIControls.elements
ResetIndex == 10

InitUI ==
    /\ RainIdle
    /\ config = Construct([width |-> 800, height |-> 600,
                           fullscreen |-> FALSE]).cfg
    /\ cfg_prev = config
    /\ cfg_call = NoCall
    /\ cfg_raised = FALSE
    /\ ColumnIdle
    /\ DropIdle
    /\ RendererIdle
    /\ pc = "idle"
    /\ running = FALSE
    /\ exit_code = -1
    /\ pending = <<>>
    /\ phases = <<>>
    /\ polled = 0
    /\ ui = UIControlsInit(config, 800, 600)
    /\ PanelHistoryIdle

\* handle_event(event) gave r
Delivered(event, r) ==
    /\ ui' = r.ui
    /\ config' = r.cfg
    /\ cfg_prev' = config
    /\ cfg_call' = IF r.call.kind = "update"
                   THEN [op |-> "update", kwargs |-> r.call.kwargs]
                   ELSE IF r.call.kind = "reset"
                   THEN [op |-> "update", kwargs |-> ResetKwargs]
                   ELSE NoCall
    /\ cfg_raised' = r.raised
    /\ ui_last' = [prev |-> ui, event |-> event, result |-> r.result,
                   raised |-> r.raised, call |-> r.call,
                   handler |-> r.handler, armed |-> armed]
    /\ armed' = [toggle |-> ArmedAfter(armed.toggle, ui.toggle_button.rect,
                                       event, TRUE),
                 reset |-> ArmedAfter(armed.reset,
                                      ui.elements[ResetIndex].rect, event,
                                      Reaches(ui, event, ResetIndex))]
    /\ polled' = polled + 1

\* ui_controls.handle_event(event), as long as no ValueError came out of it
UIEvent ==
    /\ polled < MaxUIEvents
    /\ ~ui_last.raised
    /\ \E event \in UIEvents :
         Delivered(event, UIControlsHandleEvent(ui, config, event))
    /\ UNCHANGED <<rainVars, colVars, dropVars, rendVars, pc, running, exit_code,
                   pending, phases>>

NextUI == UIEvent

SpecUI == InitUI /\ [][NextUI]_vars

\* the elements of the panel before the last call that would handle its event
Takers ==
    {k \in DOMAIN ui_last.prev.elements :
        ElementHandleEvent(ui_last.prev.elements[k], ui_last.event).handled}

\* the toggle button of the panel before the last call handles its event
ToggleTakes ==
    ButtonHandleEvent(ui_last.prev.toggle_button, ui_last.event).handled

\* C14: UIControls.handle_event gives the event to the toggle button first
\* and then to the elements in the order of their creation, and stops at the
\* first that handles it: when the toggle button handles the event no element
\* changes; when element k is the first to handle it, k is the handler, the
\* elements before k are as their own handle_event left them (unless the
\* callback was the reset, which sets them to the defaults) and no element
\* after k has changed; when nobody handles it, every element is as its own
\* handle_event left it
C14_ForwardingStopsAtFirstHandler ==
    ui_last.event.type # "NONE" =>
        /\ ui.toggle_button =
               ButtonHandleEvent(ui_last.prev.toggle_button, ui_last.event).el
        /\ ToggleTakes =>
               /\ ui.elements = ui_last.prev.elements
               /\ ui_last.handler = 0
        /\ ~ToggleTakes /\ ui_last.prev.visible =>
               /\ Takers = {} =>
                     /\ ui_last.handler = 0
                     /\ ui_last.call = NoCallback
                     /\ \A j \in DOMAIN ui.elements :
                           ui.elements[j] =
                               ElementHandleEvent(ui_last.prev.elements[j],
                                                  ui_last.event).el
               /\ \A k \in Takers :
                     (\A j \in Takers : k <= j) =>
                        /\ ui_last.handler = k
                        /\ \A j \in DOMAIN ui.elements :
                              j > k => ui.elements[j] = ui_last.prev.elements[j]
                        /\ ui_last.call.kind # "reset" =>
                              \A j \in 1..(k - 1) :
                                  ui.elements[j] =
                                      ElementHandleEvent(
                                          ui_last.prev.elements[j],
                                          ui_last.event).el

\* an element handled the event that a later element would have handled too
C14_Witness ==
    /\ ui_last.event.type # "NONE"
    /\ ui_last.prev.visible
    /\ ~ToggleTakes
    /\ ~ui_last.raised
    /\ \E k \in Takers : \E j \in Takers : k < j /\ ui_last.handler = k

\* C15: while the panel is hidden only the toggle button is given the event:
\* a call of handle_event on a hidden panel leaves every element of the panel
\* and the configuration as they were, runs no callback but that of the
\* toggle button and returns False
C15_HiddenPanelGetsNoEvents ==
    ui_last.event.type # "NONE" /\ ~ui_last.prev.visible =>
        /\ ui.elements = ui_last.prev.elements
        /\ config = cfg_prev
        /\ ui_last.call.kind \in {"none", "toggle"}
        /\ ui_last.call.kind = "toggle" => ToggleTakes
        /\ ~ui_last.result
        /\ ~ui_last.raised

\* a hidden panel got an event that one of its elements would have handled
C15_Witness ==
    /\ ui_last.event.type # "NONE"
    /\ ~ui_last.prev.visible
    /\ ~ToggleTakes
    /\ Takers # {}

\* C16: UIControls.handle_event returns True if and only if the event made a
\* widget callback call MatrixConfig.update (through _update_config or
\* _reset_config); calls out of which ValueError came return nothing and are
\* left aside
C16_TrueIffConfigUpdated ==
    ui_last.event.type # "NONE" /\ ~ui_last.raised =>
        (ui_last.result <=> ui_last.call.kind \in {"update", "reset"})

\* C17: a Button runs its callback exactly on a left release inside its
\* bounds that follows a left press inside its bounds with no other left
\* release in between (armed), and any left release leaves it not pressed:
\* for the toggle button, which is given every event, and for the Reset
\* button on the events that reach it
C17_ButtonFiresOnPressAndReleaseInside ==
    ui_last.event.type # "NONE" =>
        /\ ui_last.call.kind = "toggle" <=>
               /\ LeftUp(ui_last.event)
               /\ collidepoint(ui_last.prev.toggle_button.rect,
                               ui_last.event.pos)
               /\ ui_last.armed.toggle
        /\ ui.visible = IF ui_last.call.kind = "toggle"
                        THEN ~ui_last.prev.visible ELSE ui_last.prev.visible
        /\ LeftUp(ui_last.event) => ~ui.toggle_button.active
        /\ ui_last.call.kind = "reset" <=>
               /\ Reaches(ui_last.prev, ui_last.event, ResetIndex)
               /\ LeftUp(ui_last.event)
               /\ collidepoint(ui_last.prev.elements[ResetIndex].rect,
                               ui_last.event.pos)
               /\ ui_last.armed.reset
        /\ LeftUp(ui_last.event)
             /\ Reaches(ui_last.prev, ui_last.event, ResetIndex) =>
               ~ui.elements[ResetIndex].active

\* a pressed button got its left release inside its bounds
C17_Witness ==
    /\ ui_last.call.kind = "toggle"
    /\ ui_last.armed.toggle
    /\ LeftUp(ui_last.event)
    /\ ui.visible # ui_last.prev.visible

\* the sliders of the panel
SliderIndexes == {k \in DOMAIN ui.elements : ui.elements[k].kind = "Slider"}

\* slider k was being dragged and was given the last event, a pointer move
DragMoved(k) ==
    /\ ui_last.event.type = "MOUSEMOTION"
    /\ ui_last.prev.elements[k].dragging
    /\ Reaches(ui_last.prev, ui_last.event, k)

\* C18: a pointer move given to a slider that is being dragged sets value to
\* exactly min_val when x is below rect.x and to exactly max_val when x is
\* above rect.x + rect.width; in every state min_val <= value <= max_val and
\* 0 <= handle_pos <= rect.width
C18_SliderClamped ==
    \A k \in SliderIndexes :
        /\ ui.elements[k].min_val <= ui.elements[k].value
        /\ ui.elements[k].value <= ui.elements[k].max_val
        /\ 0 <= ui.elements[k].handle_pos
        /\ ui.elements[k].handle_pos <= ui.elements[k].rect.width
        /\ DragMoved(k) /\ ui_last.event.pos[1] < ui.elements[k].rect.x =>
               /\ ui.elements[k].value = ui.elements[k].min_val
               /\ ui.elements[k].handle_pos = 0
        /\ DragMoved(k) /\ ui_last.event.pos[1] >
                               ui.elements[k].rect.x + ui.elements[k].rect.width =>
               /\ ui.elements[k].value = ui.elements[k].max_val
               /\ ui.elements[k].handle_pos = ui.elements[k].rect.width

\* a dragged slider was moved to the left of its track
C18_Witness ==
    \E k \in SliderIndexes :
        /\ DragMoved(k)
        /\ ui_last.event.pos[1] < ui.elements[k].rect.x
        /\ ui_last.prev.elements[k].value # ui.elements[k].value

\* the dropdowns of the panel
DropdownIndexes ==
    {k \in DOMAIN ui.elements : ui.elements[k].kind = "Dropdown"}

\* where option i (from 1) of the dropdown d is drawn when its list is open
OptionRect(d, i) ==
    Rect(d.rect.x, d.rect.y + i * d.rect.height, d.rect.width, d.rect.height)

\* the options of d whose rectangle holds the position
OptionsAt(d, pos) ==
    {i \in DOMAIN d.options : collidepoint(OptionRect(d, i), pos)}

\* element k was given the last event, a left press
LeftPressOn(k) ==
    /\ LeftDown(ui_last.event)
    /\ Reaches(ui_last.prev, ui_last.event, k)

\* C19: a left click on the closed control of a dropdown opens its list;
\* while the list is open a click on option i sets value to option i, calls
\* the callback once with that value and closes the list; while it is open
\* a click outside the control and the list closes it, keeps value and calls
\* nothing; the callback of a dropdown is called only by a click on an option
\* of its open list
C19_DropdownProtocol ==
    \A k \in DropdownIndexes :
        /\ LeftPressOn(k)
             /\ ~ui_last.prev.elements[k].expanded
             /\ collidepoint(ui.elements[k].rect, ui_last.event.pos) =>
               /\ ui.elements[k].expanded
               /\ ui.elements[k].value = ui_last.prev.elements[k].value
               /\ ui_last.call = NoCallback
        /\ \A i \in DOMAIN ui.elements[k].options :
              LeftPressOn(k)
                /\ ui_last.prev.elements[k].expanded
                /\ ~collidepoint(ui.elements[k].rect, ui_last.event.pos)
                /\ i \in OptionsAt(ui.elements[k], ui_last.event.pos) =>
                  /\ ui.elements[k].value = ui.elements[k].options[i][1]
                  /\ ui.elements[k].display_text = ui.elements[k].options[i][2]
                  /\ ui_last.handler = k
                  /\ ui_last.call =
                         UpdateCallback(ui.elements[k].field,
                                        ui.elements[k].options[i][1])
                  /\ ~ui.elements[k].expanded
        /\ LeftPressOn(k)
             /\ ui_last.prev.elements[k].expanded
             /\ ~collidepoint(ui.elements[k].rect, ui_last.event.pos)
             /\ OptionsAt(ui.elements[k], ui_last.event.pos) = {} =>
               /\ ~ui.elements[k].expanded
               /\ ui.elements[k].value = ui_last.prev.elements[k].value
               /\ ui_last.call = NoCallback
        /\ ui_last.handler = k /\ ui_last.call # NoCallback =>
               /\ ui_last.prev.elements[k].expanded
               /\ LeftDown(ui_last.event)
               /\ OptionsAt(ui.elements[k], ui_last.event.pos) # {}

\* the colour pickers of the panel
PickerIndexes ==
    {k \in DOMAIN ui.elements : ui.elements[k].kind = "ColorPicker"}

\* the swatches (from 1) of the picker p whose rectangle holds the position
SwatchesAt(p, pos) ==
    {i \in DOMAIN p.swatches : collidepoint(SwatchRect(p, i - 1), pos)}

\* C20: a left click on the closed colour box opens the palette; while it is
\* open a click on a swatch sets color to that swatch, calls the callback
\* once with it (the configuration takes it as base_color) and closes the
\* palette; while it is open a click that hits neither the box nor a swatch
\* closes it, keeps color and calls nothing; color is always the initial
\* colour or one of the swatches
C20_ColorPickerProtocol ==
    \A k \in PickerIndexes :
        /\ \/ ui.elements[k].color = FieldDefaults.base_color
           \/ \E i \in DOMAIN Swatches : ui.elements[k].color = Swatches[i]
        /\ LeftPressOn(k)
             /\ ~ui_last.prev.elements[k].expanded
             /\ collidepoint(ui.elements[k].rect, ui_last.event.pos) =>
               /\ ui.elements[k].expanded
               /\ ui.elements[k].color = ui_last.prev.elements[k].color
               /\ ui_last.call = NoCallback
        /\ \A i \in DOMAIN Swatches :
              LeftPressOn(k)
                /\ ui_last.prev.elements[k].expanded
                /\ ~collidepoint(ui.elements[k].rect, ui_last.event.pos)
                /\ i \in SwatchesAt(ui.elements[k], ui_last.event.pos) =>
                  /\ ui.elements[k].color = Swatches[i]
                  /\ ui_last.handler = k
                  /\ ui_last.call = UpdateCallback("base_color", Swatches[i])
                  /\ config.base_color = Swatches[i]
                  /\ ~ui.elements[k].expanded
        /\ LeftPressOn(k)
             /\ ui_last.prev.elements[k].expanded
             /\ ~collidepoint(ui.elements[k].rect, ui_last.event.pos)
             /\ SwatchesAt(ui.elements[k], ui_last.event.pos) = {} =>
               /\ ~ui.elements[k].expanded
               /\ ui.elements[k].color = ui_last.prev.elements[k].color
               /\ ui_last.call = NoCallback
        /\ ui_last.handler = k /\ ui_last.call # NoCallback =>
               /\ ui_last.prev.elements[k].expanded
               /\ LeftDown(ui_last.event)
               /\ SwatchesAt(ui.elements[k], ui_last.event.pos) # {}

\* a swatch other than the current colour was clicked in the open palette
C20_Witness ==
    \E k \in PickerIndexes :
        /\ LeftPressOn(k)
        /\ ui_last.prev.elements[k].expanded
        /\ SwatchesAt(ui.elements[k], ui_last.event.pos) # {}
        /\ ui_last.prev.elements[k].color # ui.elements[k].color
        /\ ~ui.elements[k].expanded

----------------------------------------------------------------------------
(* Specification of a falling column: one RainColumn created by            *)
(* reset_matrix for a 640 x 480 window and updated frame after frame long   *)
(* enough for its drops to leave the screen, with a history of each drop    *)
(* and of the spawns                                                        *)

\* milliseconds between two frames of the falling column
FallGap == 50

\* how many frames one run explores
MaxFallTicks == 36

\* how many uncommon events one run takes (a deactivation, a reactivation,
\* a short spawn delay, a change of the configuration), and the frame after
\* which it takes none
MaxFallRare == 2

RareUntil == 6

\* the configurations the column is created under: fast and dense rain, slow
\* and sparse rain; speed_variation is 2.0 in both
FallConfigs ==
    { update(Construct([width |-> 640, height |-> 480,
                        fullscreen |-> FALSE]).cfg,
             [rain_speed |-> 500, rain_density |-> 200,
              speed_variation |-> 200, char_set |-> "BINARY"]).cfg,
      update(Construct([width |-> 640, height |-> 480,
                        fullscreen |-> FALSE]).cfg,
             [rain_speed |-> 100, rain_density |-> 10,
              speed_variation |-> 200, char_set |-> "BINARY"]).cfg }

\* live changes made through the panel
FallUpdates ==
    { [rain_speed |-> 100],
      [color_mode |-> "RAINBOW"],
      [color_mode |-> "CUSTOM", base_color |-> <<255, 0, 255>>] }

\* draws of reset_matrix for the column: speed 1.0 + 2.0 and 1.0 - 2.0
FallResetDraws ==
    [jitter : {-3}, speed_u : {-100, 100}, length : {5}, size_u : {0},
     active : BOOLEAN, delay : {0}]

\* draws of one RainColumn.update call
FallDraws ==
    [reroll : {0}, char_u : {0}, spawn_u : {0}, delay_u : {0, 99},
     deactivate : BOOLEAN, reactivate : BOOLEAN, react_delay : {0, 1000}]

\* how far the draws rnd are from the common ones (no transition, a long
\* spawn delay): the number of outcomes that differ
FallRareCount(rnd) ==
    (IF rnd.deactivate THEN 1 ELSE 0) + (IF rnd.reactivate THEN 1 ELSE 0)
        + (IF rnd.delay_u < 50 THEN 1 ELSE 0)

\* the indexes of the drops of col that are still on screen after moving
\* under c, in order
KeptIndexes(col, c) ==
    LET on == {i \in DOMAIN col.drops :
                  ~is_offscreen(RainDropUpdate(col.drops[i], c, FALSE, 0),
                                c.height)}
    IN [k \in 1..Cardinality(on) |->
           CHOOSE i \in on : Cardinality({j \in on : j <= i}) = k]

\* no spawn has happened
NoSpawn == [at |-> -1, floor |-> 0, react |-> FALSE]

\* whether the draws rnd make RainColumn.update reactivate the column col:
\* it is dormant after the deactivation step and random.random() < 0.05
Reactivated(col, rnd) ==
    (~col.active \/ rnd.deactivate) /\ rnd.reactivate

\* the draws rnd with neither random transition taken
NoTransition(rnd) ==
    [rnd EXCEPT !.deactivate = FALSE, !.reactivate = FALSE]

\* the history after RainColumn.update(c, current_time) with the draws rnd
\* took the column from col to col2: mid is the column as the spawn step
\* left it, before the random transitions; kept are the indexes of the
\* drops that stayed, spawned says whether a drop was added; ages counts the updates
\* each drop went through and unit says that rain_speed was 1.0 in all of
\* them; last_spawn is the time of the last spawn, floor(37.5 /
\* rain_density) at that time and whether the column was reactivated since
FallAfter(col, mid, col2, c, current_time, rnd, kept, spawned) ==
    [prev |-> col,
     mid |-> mid,
     cfg |-> c,
     at |-> current_time,
     kept |-> kept,
     spawned |-> spawned,
     reactivated |-> Reactivated(col, rnd),
     ages |-> [k \in DOMAIN col2.drops |->
                  IF k <= Len(kept) THEN fall.ages[kept[k]] + 1 ELSE 0],
     unit |-> [k \in DOMAIN col2.drops |->
                  IF k <= Len(kept)
                  THEN fall.unit[kept[k]] /\ c.rain_speed = 100
                  ELSE TRUE],
     before_spawn |-> fall.last_spawn,
     last_spawn |->
         IF spawned
         THEN [at |-> current_time, floor |-> 3750 \div c.rain_density,
               react |-> Reactivated(col, rnd)]
         ELSE [fall.last_spawn EXCEPT
                  !.react = @ \/ Reactivated(col, rnd)]]

\* the column as reset_matrix creates it, before its first update
InitFall ==
    /\ config \in FallConfigs
    /\ cfg_prev = config
    /\ cfg_call = NoCall
    /\ cfg_raised = FALSE
    /\ \E rr \in FallResetDraws : column = NewColumn(config, 0, rr)
    /\ now = 0
    /\ rare = 0
    /\ DropIdle
    /\ RendererIdle
    /\ MainIdle
    /\ frame = NoFrame
    /\ fall = [prev |-> column, mid |-> column, cfg |-> config, at |-> 0, kept |-> <<>>,
               spawned |-> FALSE, reactivated |-> FALSE, ages |-> <<>>,
               unit |-> <<>>, before_spawn |-> NoSpawn,
               last_spawn |-> NoSpawn]

\* RainColumn.update(config, current_time) took the column to col2
FallStep(current_time, rnd, mid, col2, kept) ==
    /\ column' = col2
    /\ fall' = FallAfter(column, mid, col2, config, current_time, rnd, kept,
                         SpawnDue(column, kept, current_time))

\* one frame: RainColumn.update(config, current_time)
FallTick ==
    /\ now + FallGap <= MaxFallTicks * FallGap
    /\ \E rnd \in FallDraws :
         /\ FallRareCount(rnd) > 0 => now < RareUntil * FallGap
         /\ rare + FallRareCount(rnd) <= MaxFallRare
         /\ FallStep(now + FallGap, rnd,
                     RainColumnUpdate(column, config, now + FallGap,
                                      NoTransition(rnd)),
                     RainColumnUpdate(column, config, now + FallGap, rnd),
                     KeptIndexes(column, config))
         /\ rare' = rare + FallRareCount(rnd)
    /\ now' = now + FallGap
    /\ UNCHANGED <<mainVars, cfgVars, dropVars, rendVars, frame>>

\* a widget callback changes the configuration between two frames
FallConfigChange ==
    /\ rare < MaxFallRare
    /\ now < RareUntil * FallGap
    /\ \E kw \in FallUpdates :
         LET r == update(config, kw) IN
         /\ ~r.raised
         /\ r.cfg # config
         /\ config' = r.cfg
         /\ cfg_prev' = config
         /\ cfg_call' = [op |-> "update", kwargs |-> kw]
         /\ cfg_raised' = FALSE
    /\ rare' = rare + 1
    /\ UNCHANGED <<rainVars, mainVars, column, now, dropVars, rendVars>>

NextFall == FallTick \/ FallConfigChange

SpecFall == InitFall /\ [][NextFall]_vars

----------------------------------------------------------------------------
(* Claims on the falling column                                            *)

\* C22: every drop that stays in the column through an update has moved by
\* exactly its speed times the rain_speed current at that update, and a drop
\* whose updates all ran with rain_speed 1.0 is at y = N * speed after N of
\* them (it was created at y = 0)
C22_DropAdvancesBySpeedTimesRainSpeed ==
    fall.at > 0 =>
        /\ Len(fall.kept) <= Len(column.drops)
        /\ \A k \in 1..Len(fall.kept) :
             column.drops[k].y
                = fall.prev.drops[fall.kept[k]].y
                    + column.drops[k].speed * fall.cfg.rain_speed
        /\ \A k \in DOMAIN column.drops :
             /\ fall.ages[k] = 0 => column.drops[k].y = 0
             /\ fall.unit[k] =>
                  column.drops[k].y = fall.ages[k] * column.drops[k].speed * 100

\* a drop has fallen for five updates with rain_speed 1.0, and another drop
\* was moved by updates with another rain_speed
C22_Witness ==
    /\ fall.at > 0
    /\ \E k \in DOMAIN column.drops :
         fall.unit[k] /\ fall.ages[k] >= 5 /\ column.drops[k].y # 0
    /\ \E k \in DOMAIN column.drops :
         ~fall.unit[k] /\ fall.ages[k] >= 2 /\ column.drops[k].y # 0

\* the drops an update removed are the first ones of the list
RemovedArePrefix ==
    fall.at > 0 =>
        \A k \in 1..Len(fall.kept) :
            fall.kept[k] = Len(fall.prev.drops) - Len(fall.kept) + k

\* C26: the drops of a column are ordered oldest first with non-increasing
\* y (drops[i].y >= drops[i+1].y), and the drops removed by an update form a
\* prefix of the list
C26_OldestFirstLowestFirst ==
    /\ \A i \in 1..(Len(column.drops) - 1) :
         /\ column.drops[i].y >= column.drops[i + 1].y
         /\ fall.at > 0 => fall.ages[i] >= fall.ages[i + 1]
    /\ RemovedArePrefix

\* C27: every drop that is spawned nears the bottom of the viewport with
\* each update it goes through, whatever the valid configuration, so that
\* its y exceeds the height after finitely many updates and it is discarded
C27_EveryDropFallsOut ==
    fall.at > 0 =>
        \A k \in 1..Len(fall.kept) :
            column.drops[k].y > fall.prev.drops[fall.kept[k]].y

\* C28: an update whose spawn step fires at time now appends exactly one
\* drop at the end of the list, with y = 0, brightness 1.0 and the column's
\* x, speed and size; its colour is the column colour after the mode rule
\* (RAINBOW: the colour of the hue, CUSTOM: base_color, otherwise the colour
\* the column had); the step sets the deadline of the next spawn within
\* [now + floor(37.5 / rain_density), now + floor(62.5 / rain_density)],
\* after now; an update whose spawn step does not fire appends nothing
C28_SpawnStep ==
    fall.at > 0 =>
        /\ fall.mid.drops = column.drops
        /\ ~fall.spawned => Len(column.drops) = Len(fall.kept)
        /\ fall.spawned =>
             LET n == Len(fall.kept)
                 d == column.drops[n + 1]
                 mode == fall.cfg.color_mode
                 deadline == fall.mid.next_spawn_time
             IN /\ Len(column.drops) = n + 1
                /\ \A k \in 1..n : fall.ages[k] >= 1
                /\ fall.ages[n + 1] = 0
                /\ d.y = 0
                /\ d.brightness = 10000
                /\ d.x = fall.prev.x
                /\ d.speed = fall.prev.speed
                /\ d.size = fall.prev.size
                /\ d.color = column.color
                /\ mode = "RAINBOW" =>
                     d.color = _hsv_to_rgb((fall.at + 200 * fall.prev.x) % 10000)
                /\ mode = "CUSTOM" => d.color = fall.cfg.base_color
                /\ mode \notin {"RAINBOW", "CUSTOM"} =>
                     d.color = fall.prev.color
                /\ deadline >= fall.at + 3750 \div fall.cfg.rain_density
                /\ deadline <= fall.at + 6250 \div fall.cfg.rain_density
                /\ deadline > fall.at
                /\ ~fall.reactivated => column.next_spawn_time = deadline

\* a column that holds drops spawns another one in RAINBOW mode and takes a
\* new colour
C28_Witness ==
    /\ fall.at > 0
    /\ fall.spawned
    /\ Len(fall.kept) >= 1
    /\ fall.cfg.color_mode = "RAINBOW"
    /\ column.color # fall.prev.color

\* C29: the random transitions of an update come after its spawn step: the
\* spawn is decided on the column as it was active or dormant before the
\* update, so a column that becomes active in an update at time now does not
\* spawn in it and gets a deadline within [now, now + 1000]; the transitions
\* leave the drops as the spawn step left them, and a transition to dormant
\* leaves the deadline too
C29_TransitionsAfterSpawn ==
    fall.at > 0 =>
        /\ fall.spawned => fall.prev.active
        /\ column.drops = fall.mid.drops
        /\ ~fall.prev.active /\ column.active =>
             /\ ~fall.spawned
             /\ Len(column.drops) = Len(fall.kept)
        /\ fall.reactivated =>
             /\ column.active
             /\ column.next_spawn_time >= fall.at
             /\ column.next_spawn_time <= fall.at + 1000
        /\ ~fall.prev.active /\ column.active => fall.reactivated
        /\ ~column.active =>
             column.next_spawn_time = fall.mid.next_spawn_time
        /\ ~fall.reactivated =>
             column.next_spawn_time = fall.mid.next_spawn_time

\* a dormant column with room for a drop becomes active with a deadline that
\* is already due, and has not spawned
C29_Witness ==
    /\ fall.at > 0
    /\ ~fall.prev.active
    /\ column.active
    /\ column.next_spawn_time <= fall.at
    /\ Len(column.drops) < column.length
    /\ Len(column.drops) >= 1

\* C30 as stated: between two successive spawns of the column at least
\* floor(37.5 / rain_density) milliseconds elapse, with the rain_density of
\* the first of the two, and nothing moves the deadline a spawn has set to
\* an earlier time before the next spawn
C30_SpawnsSpaced ==
    fall.at > 0 =>
        /\ fall.spawned /\ fall.before_spawn.at >= 0 =>
             fall.at - fall.before_spawn.at >= fall.before_spawn.floor
        /\ column.next_spawn_time >= fall.mid.next_spawn_time
        /\ ~fall.spawned =>
             column.next_spawn_time >= fall.prev.next_spawn_time

\* C30: between two successive spawns of the column with no reactivation of
\* the column from the first one on, at least floor(37.5 / rain_density)
\* milliseconds elapse, with the rain_density of the first of the two; only
\* a spawn and a reactivation move the deadline
C30_SpawnsSpacedUnlessReactivated ==
    fall.at > 0 =>
        /\ (/\ fall.spawned
            /\ fall.before_spawn.at >= 0
            /\ ~fall.before_spawn.react) =>
             fall.at - fall.before_spawn.at >= fall.before_spawn.floor
        /\ ~fall.reactivated =>
             column.next_spawn_time = fall.mid.next_spawn_time
        /\ ~fall.spawned /\ ~fall.reactivated =>
             column.next_spawn_time = fall.prev.next_spawn_time

\* the column spawns for the second time, with no reactivation since the
\* first, at a rain_density whose least delay is longer than a frame
C30_Witness ==
    /\ fall.at > 0
    /\ fall.spawned
    /\ fall.before_spawn.at >= 0
    /\ ~fall.before_spawn.react
    /\ fall.before_spawn.floor > FallGap

----------------------------------------------------------------------------
(* Specification of the rendered rain: MatrixRenderer(config) in RAINBOW   *)
(* mode at the largest glyph size, then frames of update() followed by     *)
(* render(surface).  A frame's render may meet glyphs whose font.render or *)
(* blit raises.                                                            *)

\* milliseconds between two frames
RainGap == 50

\* the number of frames explored
MaxRainFrames == 3

\* the number of rare draws in a run
MaxRainRare == 1

\* the configuration of the run, as the panel has set it before the matrix
\* was reset: spacing 42, fifteen columns
RainConfig ==
    Construct([width |-> 640, height |-> 480, fullscreen |-> FALSE,
               char_size_min |-> 38, char_size_max |-> 40,
               char_set |-> "BINARY", color_mode |-> "RAINBOW"]).cfg

\* draws of reset_matrix for column k: the first column lies at x = -1 and
\* the seventh at x = 249; every column is active, or every other one
RainResetDraws(every, k) ==
    [jitter |-> IF k = 1 THEN -1 ELSE IF k = 7 THEN -3 ELSE 0,
     speed_u |-> 0,
     length |-> 5,
     size_u |-> IF k % 2 = 0 THEN 0 ELSE 99,
     active |-> every \/ k % 2 = 1,
     delay |-> 0]

\* the columns that may take a rare draw
RainRareColumns == {1, 2, 7}

\* draws with one rare outcome
RainRareDraws ==
    { [reroll |-> 0, char_u |-> 0, spawn_u |-> 99, delay_u |-> 99,
       deactivate |-> FALSE, reactivate |-> FALSE, react_delay |-> 0],
      [reroll |-> 1, char_u |-> 99, spawn_u |-> 0, delay_u |-> 50,
       deactivate |-> FALSE, reactivate |-> FALSE, react_delay |-> 0],
      [reroll |-> 0, char_u |-> 0, spawn_u |-> 0, delay_u |-> 50,
       deactivate |-> TRUE, reactivate |-> FALSE, react_delay |-> 0],
      [reroll |-> 0, char_u |-> 0, spawn_u |-> 0, delay_u |-> 50,
       deactivate |-> FALSE, reactivate |-> TRUE, react_delay |-> 0] }

\* the glyphs <<column, drop>> whose rendering raises, and whether it is
\* the first font.render/blit pair ("text") or the second one ("trail")
GlyphFailures ==
    { {},
      {<<1, 1, "text">>},
      {<<1, 2, "trail">>, <<7, 1, "text">>},
      {<<2, 1, "text">>, <<7, 2, "text">>, <<15, 1, "trail">>} }

\* the colour of the head glyph
White == <<255, 255, 255>>

\* int(drop.y)
IntY(y) == IF y >= 0 THEN y \div YScale ELSE -((-y) \div YScale)

\* min(255, int(drop.color[0] * drop.brightness)) for one channel
Shade(channel, brightness) ==
    IF (channel * brightness) \div FullBrightness > 255
    THEN 255
    ELSE (channel * brightness) \div FullBrightness

\* the head taken to be the last drop of the list
IsHead_last(col, i) == i = Len(col.drops) /\ col.active

\* the branch 'i == 0 and column.active' of _render_column, for the i-th
\* drop (from 1) of the column
IsHead(col, i) == i = 1 /\ col.active

\* the colour _render_column gives the i-th drop of the column
GlyphColor(col, i) ==
    IF IsHead(col, i)
    THEN White
    ELSE <<Shade(col.drops[i].color[1], col.drops[i].brightness),
           Shade(col.drops[i].color[2], col.drops[i].brightness),
           Shade(col.drops[i].color[3], col.drops[i].brightness)>>

\* what _render_column hands to font.render and blit for the i-th drop of
\* the k-th column
Glyph(cols, k, i) ==
    [column |-> k,
     index |-> i,
     char |-> cols[k].drops[i].char,
     color |-> GlyphColor(cols[k], i),
     head |-> IsHead(cols[k], i),
     pos |-> <<cols[k].drops[i].x, IntY(cols[k].drops[i].y)>>,
     alpha |-> (150 * cols[k].drops[i].brightness) \div FullBrightness]

\* the loop gives up the column at the first glyph that raises
Reached_until_failure(k, i, fails) ==
    \A j \in 1..(i - 1) : \A stage \in {"text", "trail"} : <<k, j, stage>> \notin fails

\* whether the loop of _render_column gets to the i-th drop of the k-th
\* column: 'except Exception: continue' goes on with the next drop
Reached(k, i, fails) == TRUE

\* the drops of all columns, as <<column, drop>>
AllDrops(cols) ==
    {kj \in (1..Len(cols)) \X (1..MaxLength) : kj[2] <= Len(cols[kj[1]].drops)}

\* MatrixRenderer.render: the glyphs blitted on the surface, those blitted
\* on the trails surface, whether the trails were blended onto the surface
\* and whether the call raised
Render(cols, fails) ==
    [surface |-> {Glyph(cols, kj[1], kj[2]) :
                    kj \in {d \in AllDrops(cols) :
                              /\ Reached(d[1], d[2], fails)
                              /\ <<d[1], d[2], "text">> \notin fails}},
     trails |-> {Glyph(cols, kj[1], kj[2]) :
                    kj \in {d \in AllDrops(cols) :
                              /\ Reached(d[1], d[2], fails)
                              /\ <<d[1], d[2], "text">> \notin fails
                              /\ <<d[1], d[2], "trail">> \notin fails}},
     blended |-> TRUE,
     raised |-> FALSE]

\* the indexes of the columns whose update at current_time spawns
Spawners(cols, c, current_time) ==
    {k \in 1..Len(cols) :
        SpawnDue(cols[k], KeptIndexes(cols[k], c), current_time)}

\* the renderer after reset_matrix has created the columns
InitRain ==
    /\ config = RainConfig
    /\ cfg_prev = config
    /\ cfg_call = NoCall
    /\ cfg_raised = FALSE
    /\ ColumnIdle
    /\ DropIdle
    /\ MainIdle
    /\ fall = NoFall
    /\ clock = 0
    /\ last_time = 0
    /\ \E every \in BOOLEAN :
         columns = ResetMatrix(config, [k \in 1..NumColumns(config) |->
                                           RainResetDraws(every, k)])
    /\ col_ids = [k \in 1..NumColumns(config) |-> k]
    /\ next_id = NumColumns(config) + 1
    /\ fonts = PreloadedSizes(config)
    /\ rend_op = "init"
    /\ discarded = 0
    /\ frame = [at |-> 0, spawned |-> {}, before |-> columns, fails |-> {},
                rendered |-> Render(<<>>, {})]

\* renderer.update() of one frame
RainUpdate ==
    /\ rend_op \in {"init", "render"}
    /\ clock + RainGap <= MaxRainFrames * RainGap
    /\ clock' = clock + RainGap
    /\ \E common \in CommonDraws :
       \E k \in {0} \cup RainRareColumns :
       \E special \in (IF k = 0 THEN {common} ELSE RainRareDraws) :
          LET r == MatrixRendererUpdate(columns, last_time, clock + RainGap,
                      config, FrameDraws(common, k, special, Len(columns)))
          IN /\ k # 0 => rare < MaxRainRare
             /\ rare' = IF k = 0 THEN rare ELSE rare + 1
             /\ columns' = r.columns
             /\ last_time' = r.last_time
    /\ rend_op' = "update"
    /\ frame' = [frame EXCEPT
                    !.at = clock + RainGap,
                    !.before = columns,
                    !.spawned = Spawners(columns, config, clock + RainGap)]
    /\ UNCHANGED <<mainVars, cfgVars, column, now, dropVars, fonts, col_ids,
                   next_id, discarded, fall>>

\* renderer.render(screen) of the frame
RainRender ==
    /\ rend_op = "update"
    /\ rend_op' = "render"
    /\ \E fails \in GlyphFailures :
         frame' = [frame EXCEPT
                      !.fails = fails,
                      !.rendered = Render(columns, fails)]
    /\ UNCHANGED <<mainVars, cfgVars, colVars, dropVars, columns, last_time,
                   fonts, clock, col_ids, next_id, discarded, fall>>

NextRain == RainUpdate \/ RainRender

SpecRain == InitRain /\ [][NextRain]_vars

----------------------------------------------------------------------------
(* Claims on the rendered rain                                             *)

\* C21: in RAINBOW mode, two columns that spawn in the same update (at the
\* same current_time) get the same hue (time / 10000 + x / 50) mod 1.0, and
\* with it the same colour, exactly when their x positions are congruent
\* modulo 50; this includes a column at a negative x
C21_RainbowHuesDifferUnlessCongruent ==
    frame.at > 0 =>
        \A k \in frame.spawned : \A j \in frame.spawned :
            LET congruent == (columns[k].x - columns[j].x) % 50 = 0
                new_k == columns[k].drops[Len(columns[k].drops)]
                new_j == columns[j].drops[Len(columns[j].drops)]
            IN /\ new_k.color = _hsv_to_rgb(RainbowHue(frame.at, columns[k].x))
               /\ RainbowHue(frame.at, columns[k].x)
                     = RainbowHue(frame.at, columns[j].x) <=> congruent
               /\ new_k.color = new_j.color <=> congruent

\* the columns at x = -1 and x = 249 spawn in one update and get one colour,
\* and the column between them at x = 42 spawns too, with another
C21_Witness ==
    /\ frame.at > RainGap
    /\ {1, 2, 7} \subseteq frame.spawned
    /\ columns[1].x = -1
    /\ columns[7].x = 249
    /\ columns[1].color = columns[7].color
    /\ columns[1].color # columns[2].color

\* the glyphs a render has drawn on the surface or on the trails surface
Drawn == frame.rendered.surface \cup frame.rendered.trails

\* C23 as stated: the drop drawn as the white head glyph of an active
\* column is its most recently spawned drop, the last of its list, and no
\* drop of a dormant column is drawn as head
C23_HeadIsNewestDrop ==
    rend_op = "render" =>
        \A g \in Drawn :
            g.head =>
                /\ columns[g.column].active
                /\ g.index = Len(columns[g.column].drops)

\* C23: the drop drawn as the white head glyph of an active column is the
\* first drop of its list, the oldest one the column still holds; every
\* other drop, and every drop of a dormant column, is drawn in its colour
\* times its brightness
C23_HeadIsOldestDrop ==
    rend_op = "render" =>
        \A g \in Drawn :
            LET col == columns[g.column]
                drop == col.drops[g.index]
            IN /\ g.head <=> col.active /\ g.index = 1
               /\ g.head =>
                    /\ g.color = White
                    /\ \A i \in DOMAIN col.drops : drop.y >= col.drops[i].y
               /\ ~g.head =>
                    \A ch \in 1..3 :
                        g.color[ch] = Shade(drop.color[ch], drop.brightness)

\* a frame shows the head of an active column that holds three drops, and
\* the first drop of a dormant column in its own colour
C23_Witness ==
    /\ rend_op = "render"
    /\ \E g \in frame.rendered.surface :
         g.head /\ Len(columns[g.column].drops) >= 3
    /\ \E g \in frame.rendered.surface :
         /\ ~columns[g.column].active
         /\ g.index = 1
         /\ g.color # White

\* the drop i of column k is among the glyphs
Shows(glyphs, k, i) == \E g \in glyphs : g.column = k /\ g.index = i

----------------------------------------------------------------------------
(* Claims on the columns of a reset and on dormant columns                 *)

\* C31: a column created by reset_matrix at clock time T has its deadline
\* of the first spawn at T or later (its initial delay is measured from the
\* reset), whatever T is; the clock read by the last update is not after T
C31_InitialDelayFromReset ==
    rend_op \in {"init", "reset", "resize"} =>
        \A k \in DOMAIN columns : columns[k].next_spawn_time >= clock

----------------------------------------------------------------------------
(* Specification of a dormant column: a column of positive speed is        *)
(* updated frame after frame, is deactivated at some frame and stays       *)
(* dormant until the reactivation test of some later update succeeds.      *)
(* The frames of a dormant column go on for ever; the clock is followed    *)
(* up to MaxDormantClock and from there on only as the last two readings   *)
(* alternating, since a dormant column reads the time only when it is      *)
(* reactivated.                                                            *)

\* the clock value after which the time is no longer followed exactly
MaxDormantClock == 200

\* how many deactivations one run takes
MaxDormantRare == 1

\* draws of reset_matrix for the column: speed 1.0 + 2.0
DormantResetDraws ==
    [jitter : {0}, speed_u : {100}, length : {5}, size_u : {0},
     active : BOOLEAN, delay : {0}]

\* draws of one RainColumn.update call
DormantDraws ==
    [reroll : {0}, char_u : {0}, spawn_u : {0}, delay_u : {99},
     deactivate : BOOLEAN, reactivate : BOOLEAN, react_delay : {0, 1000}]

\* the clock reading of the next frame
NextReading ==
    IF now + FallGap > MaxDormantClock
    THEN MaxDormantClock - FallGap
    ELSE now + FallGap

\* the column as reset_matrix creates it, before its first update
InitDormant ==
    /\ config = CHOOSE c \in FallConfigs : c.rain_speed = 500
    /\ cfg_prev = config
    /\ cfg_call = NoCall
    /\ cfg_raised = FALSE
    /\ \E rr \in DormantResetDraws : column = NewColumn(config, 0, rr)
    /\ now = 0
    /\ rare = 0
    /\ DropIdle
    /\ RendererIdle
    /\ MainIdle
    /\ frame = NoFrame
    /\ fall = [prev |-> column, mid |-> column, cfg |-> config, at |-> 0,
               kept |-> <<>>, spawned |-> FALSE, reactivated |-> FALSE,
               ages |-> <<>>, unit |-> <<>>, before_spawn |-> NoSpawn,
               last_spawn |-> NoSpawn]

\* one frame with the draws rnd: RainColumn.update(config, current_time)
DormantUpdate(rnd) ==
    /\ column.active => now + FallGap <= MaxDormantClock
    /\ rnd.deactivate => rare < MaxDormantRare
    /\ FallStep(NextReading, rnd,
                RainColumnUpdate(column, config, NextReading, NoTransition(rnd)),
                RainColumnUpdate(column, config, NextReading, rnd),
                KeptIndexes(column, config))
    /\ rare' = IF rnd.deactivate THEN rare + 1 ELSE rare
    /\ now' = NextReading
    /\ UNCHANGED <<mainVars, cfgVars, dropVars, rendVars, frame>>

\* a frame
DormantTick == \E rnd \in DormantDraws : DormantUpdate(rnd)

\* a frame in which random.random() < 0.05 holds
DormantTickReactivating ==
    \E rnd \in DormantDraws : rnd.reactivate /\ DormantUpdate(rnd)

NextDormant == DormantTick

\* frames keep coming, and the reactivation test does not fail for ever
SpecDormant ==
    /\ InitDormant
    /\ [][NextDormant]_vars
    /\ WF_vars(DormantTick)
    /\ SF_vars(DormantTickReactivating)

\* an update of a column that was dormant spawned nothing, moved every drop
\* by its speed times rain_speed and removed exactly the drops that were
\* then below the bottom edge
DormantDropsFall ==
    fall.at > 0 /\ ~fall.prev.active =>
        /\ ~fall.spawned
        /\ Len(column.drops) = Len(fall.kept)
        /\ \A k \in 1..Len(fall.kept) :
             column.drops[k].y
                = fall.prev.drops[fall.kept[k]].y
                    + column.drops[k].speed * fall.cfg.rain_speed
        /\ \A k \in 1..Len(fall.kept) :
             column.drops[k].y <= fall.cfg.height * YScale
        /\ \A i \in DOMAIN fall.prev.drops :
             (\E k \in 1..Len(fall.kept) : fall.kept[k] = i)
                <=> fall.prev.drops[i].y
                        + fall.prev.drops[i].speed * fall.cfg.rain_speed
                            <= fall.cfg.height * YScale

\* C32: with frames that keep coming and a reactivation test that does not
\* fail for ever, a dormant column becomes active again; while it is
\* dormant every update moves its drops and removes those that have left
\* the screen
C32_DormantFallsAndWakes ==
    /\ []DormantDropsFall
    /\ (~column.active ~> column.active)

\* a dormant column loses a drop that has fallen below the bottom edge
C32_Witness ==
    /\ fall.at > 0
    /\ ~fall.prev.active
    /\ ~column.active
    /\ Len(fall.kept) < Len(fall.prev.drops)
    /\ Len(fall.kept) >= 1

----------------------------------------------------------------------------
(* Claims on the reset of the panel and on its popups                      *)

\* the configuration field a slider stands for, in the slider's unit
SliderField(c, label) ==
    CASE label = "Rain Speed" -> c.rain_speed
      [] label = "Rain Density" -> c.rain_density
      [] label = "Min Char Size" -> 100 * c.char_size_min
      [] label = "Max Char Size" -> 100 * c.char_size_max
      [] label = "Fade Speed" -> c.fading_speed
      [] label = "Speed Variation" -> c.speed_variation

\* the configuration fields that are not those of the window
PanelFields ==
    {"rain_speed", "rain_density", "char_set", "custom_chars",
     "char_size_min", "char_size_max", "color_mode", "base_color",
     "fading_speed", "speed_variation"}

\* C33: after the Reset button has fired, every configuration field but
\* width, height and fullscreen has its default, these three are as they
\* were, and every slider value, dropdown value and colour-picker colour
\* equals the configuration field it stands for
C33_ResetRestoresDefaults ==
    ui_last.call.kind = "reset" =>
        /\ ~ui_last.raised
        /\ \A f \in PanelFields : config[f] = FieldDefaults[f]
        /\ config.rain_speed = 100
        /\ config.color_mode = "GREEN"
        /\ config.base_color = <<0, 255, 0>>
        /\ config.width = cfg_prev.width
        /\ config.height = cfg_prev.height
        /\ config.fullscreen = cfg_prev.fullscreen
        /\ \A k \in DOMAIN ui.elements :
             LET el == ui.elements[k]
             IN /\ el.kind = "Slider" =>
                     el.value = SliderField(config, el.label)
                /\ el.kind = "Dropdown" /\ el.label = "Color Mode" =>
                     el.value = config.color_mode
                /\ el.kind = "Dropdown" /\ el.label = "Character Set" =>
                     el.value = config.char_set
                /\ el.kind = "ColorPicker" => el.color = config.base_color

\* the Reset button fires after a swatch of the colour picker had changed
\* base_color
C33_Witness ==
    /\ ui_last.call.kind = "reset"
    /\ ~ui_last.raised
    /\ cfg_prev.base_color # config.base_color
    /\ \E k \in DOMAIN ui.elements :
         /\ ui.elements[k].kind = "ColorPicker"
         /\ ui_last.prev.elements[k].color # ui.elements[k].color

----------------------------------------------------------------------------
(* Claims on what an update leaves alone                                   *)

\* the drops of the columns cols, as <<column, drop>>, that are the same
\* drop as one of another column
SharedDrops(cols) ==
    {d \in AllDrops(cols) :
        \E e \in AllDrops(cols) :
            d[1] # e[1] /\ cols[d[1]].drops[d[2]] = cols[e[1]].drops[e[2]]}

\* C34: an update leaves the x, speed, length and size of every column as
\* they were, and of every drop that stays in a column its x, speed, colour
\* and size; only y, char and brightness of such a drop may differ, and the
\* brightness is not higher than before; no drop is in two columns
C34_UpdateKeepsTheRest ==
    frame.at > 0 =>
        /\ DOMAIN columns = DOMAIN frame.before
        /\ \A k \in DOMAIN columns :
             LET old == frame.before[k]
                 new == columns[k]
                 kept == KeptIndexes(old, config)
             IN /\ new.x = old.x
                /\ new.speed = old.speed
                /\ new.length = old.length
                /\ new.size = old.size
                /\ Len(new.drops) >= Len(kept)
                /\ \A i \in 1..Len(kept) :
                     /\ new.drops[i].brightness <= old.drops[kept[i]].brightness
                     /\ [new.drops[i] EXCEPT !.y = 0, !.char = 0, !.brightness = 0]
                           = [old.drops[kept[i]] EXCEPT
                                 !.y = 0, !.char = 0, !.brightness = 0]
                /\ \A i \in DOMAIN new.drops : new.drops[i].x = new.x
        /\ SharedDrops(columns) = {}

\* an update rerolls the glyph of the first column's oldest drop and dims it,
\* while the column spawns and takes another colour than that drop has
C34_Witness ==
    /\ frame.at > 0
    /\ Len(frame.before[1].drops) >= 1
    /\ columns[1].drops[1].char # frame.before[1].drops[1].char
    /\ columns[1].drops[1].brightness < frame.before[1].drops[1].brightness
    /\ columns[1].drops[1].y > frame.before[1].drops[1].y
    /\ 1 \in frame.spawned
    /\ columns[1].color # columns[1].drops[1].color

----------------------------------------------------------------------------
(* Claims on the font cache                                                *)

\* C35: when a frame is rendered after any resets, resizes and changes made
\* through the panel, the font cache is not empty and the font _get_font
\* returns for a column differs from the column's size by at most 1
C35_FontsFitColumns ==
    rend_op \in {"update", "skip"} =>
        /\ fonts # {}
        /\ \A k \in DOMAIN columns :
             SizeGap(_get_font(fonts, columns[k].size), columns[k].size) <= 1

----------------------------------------------------------------------------
(* Claims on the popups of the panel                                       *)

\* the elements of the panel whose popup (option list or palette) is open
ExpandedPopups ==
    {k \in DOMAIN ui.elements :
        /\ ui.elements[k].kind \in {"Dropdown", "ColorPicker"}
        /\ ui.elements[k].expanded}

\* C36: after any sequence of pointer events given to
\* UIControls.handle_event, at most one of the Color Mode list, the
\* Character Set list and the colour palette is open
C36_AtMostOnePopup == Cardinality(ExpandedPopups) <= 1

=============================================================================
